---- MODULE Spec2Model ----
(***************************************************************************)
(* Template diff and replacement propagation of                            *)
(* packages/@aws-cdk/cloudformation-diff/lib/diff-template.ts.             *)
(*                                                                         *)
(* JSON documents are trees of nodes.  Every node is a record of the same  *)
(* shape so that any two nodes can be compared:                            *)
(*   k    : "undef" | "str" | "arr" | "obj"                                *)
(*   s    : the string of a "str" node                                     *)
(*   keys : the keys of an "obj" node, in insertion order (Object.keys)    *)
(*   kids : the values of an "obj" node (parallel to keys) or the          *)
(*          elements of an "arr" node                                      *)
(*   own  : who allocated the object: "caller" for the documents handed to *)
(*          diffTemplate, "engine" for objects allocated by deepCopy.  A   *)
(*          write to a node whose own is "caller" is a write to the        *)
(*          caller's document.                                             *)
(***************************************************************************)
EXTENDS Integers, Sequences, FiniteSets, TLC

VARIABLES
    pc,                 \* position inside diffTemplate
    currentTemplate,    \* the caller's old document
    newTemplate,        \* the caller's new document
    changeSet,          \* the optional change set
    currentTemplate0,   \* the documents as they were handed in
    newTemplate0,
    replacements,       \* const replacements (line 49)
    theDiff,            \* const theDiff (line 51)
    newTemplateCopy,    \* const newTemplateCopy (line 54)
    diffWithReplacements,          \* let diffWithReplacements (line 57)
    didPropagateReferenceChanges,  \* let didPropagateReferenceChanges (line 56)
    iterations,         \* number of executions of the loop body so far
    sdkPc,              \* position inside SdkProvider.forEnvironment (helper.ts)
    provider,           \* what the SdkProvider finds around it: default account,
                        \* plugins, and how STS answers
    request,            \* the arguments of forEnvironment
    env,                \* const env (helper.ts line 270)
    baseCreds,          \* const baseCreds (helper.ts line 272)
    result,             \* what forEnvironment has returned or thrown
    renderPc,           \* position of a call of renderArguments or renderCommandLine (helper.ts)
    platform,           \* process.platform
    cmd,                \* the argument cmd: a list of strings
    rendered,           \* what renderArguments has returned
    commandLine         \* what renderCommandLine has returned

templateVars == <<pc, currentTemplate, newTemplate, changeSet, currentTemplate0, newTemplate0,
                  replacements, theDiff, newTemplateCopy, diffWithReplacements,
                  didPropagateReferenceChanges, iterations>>

sdkVars == <<sdkPc, provider, request, env, baseCreds, result>>

renderVars == <<renderPc, platform, cmd, rendered, commandLine>>

vars == <<templateVars, sdkVars, renderVars>>

-----------------------------------------------------------------------------
(* JSON values *)

Undef == [k |-> "undef", s |-> "", keys |-> <<>>, kids |-> <<>>, own |-> "caller"]
Str(s) == [k |-> "str", s |-> s, keys |-> <<>>, kids |-> <<>>, own |-> "caller"]
Arr(items) == [k |-> "arr", s |-> "", keys |-> <<>>, kids |-> items, own |-> "caller"]
Obj(keys, kids) == [k |-> "obj", s |-> "", keys |-> keys, kids |-> kids, own |-> "caller"]
Obj1(key, v) == Obj(<<key>>, <<v>>)
EmptyObj == Obj(<<>>, <<>>)

Range(seq) == {seq[i] : i \in 1..Len(seq)}

IndexOf(seq, x) == CHOOSE i \in 1..Len(seq) : seq[i] = x

\* the property names of the elements of an array
Indices == <<"0", "1", "2", "3", "4", "5", "6", "7", "8", "9">>

\* Object.keys(obj || {}): an array has its indices for keys
Keys(o) ==
    IF o.k = "obj" THEN o.keys
    ELSE IF o.k = "arr" THEN SubSeq(Indices, 1, Len(o.kids))
    ELSE <<>>

\* obj[key]; undefined when obj is no object or lacks the key
Get(o, key) ==
    IF key \in Range(Keys(o)) THEN o.kids[IndexOf(Keys(o), key)] ELSE Undef

\* obj[key] = v
SetKey(o, key, v) ==
    IF key \in Range(o.keys)
    THEN [o EXCEPT !.kids[IndexOf(o.keys, key)] = v]
    ELSE [o EXCEPT !.keys = Append(o.keys, key), !.kids = Append(o.kids, v)]

\* delete obj[key]
DeleteKey(o, key) ==
    LET keep == [i \in 1..Len(o.keys) |-> o.keys[i] # key]
        F[i \in 0..Len(o.keys)] ==
            IF i = 0 THEN [keys |-> <<>>, kids |-> <<>>]
            ELSE IF keep[i]
                 THEN [keys |-> Append(F[i-1].keys, o.keys[i]),
                       kids |-> Append(F[i-1].kids, o.kids[i])]
                 ELSE F[i-1]
    IN [o EXCEPT !.keys = F[Len(o.keys)].keys, !.kids = F[Len(o.keys)].kids]

-----------------------------------------------------------------------------
(* Strings: Array.prototype.sort() without a comparator orders strings by  *)
(* UTF-16 code unit.  CodeUnits lists the characters the model's keys use  *)
(* in that order.                                                          *)

CodeUnits == <<" ", "(", ")", "0", "1", "2", "3", "4", "5", "6", "7", "8", "9", ":", "A", "B", "C", "D", "E", "F", "G", "H", "I", "J", "K",
               "L", "M", "N", "O", "P", "Q", "R", "S", "T", "U", "V", "W", "X", "Y", "Z",
               "a", "b", "c", "d", "e", "f", "g", "h", "i", "j", "k", "l", "m", "n", "o",
               "p", "q", "r", "s", "t", "u", "v", "w", "x", "y", "z">>

CodeUnitOf == [c \in Range(CodeUnits) |-> IndexOf(CodeUnits, c)]

CodeUnit(c) == CodeUnitOf[c]

RECURSIVE StrLessFrom(_, _, _)
StrLessFrom(a, b, i) ==
    IF i > Len(b) THEN FALSE
    ELSE IF i > Len(a) THEN TRUE
    ELSE LET ca == CodeUnit(SubSeq(a, i, i))
             cb == CodeUnit(SubSeq(b, i, i))
         IN IF ca < cb THEN TRUE
            ELSE IF ca > cb THEN FALSE
            ELSE StrLessFrom(a, b, i + 1)

StrLess(a, b) == StrLessFrom(a, b, 1)

\* key.startsWith(prefix)
StartsWith(str, prefix) ==
    Len(str) >= Len(prefix) /\ SubSeq(str, 1, Len(prefix)) = prefix

\* [...].sort() of a list of distinct strings
RECURSIVE Sort(_)
Sort(seq) ==
    IF seq = <<>> THEN <<>>
    ELSE LET m == CHOOSE x \in Range(seq) : \A y \in Range(seq) : y = x \/ StrLess(x, y)
         IN <<m>> \o Sort(SelectSeq(seq, LAMBDA x : x # m))

\* unionOf(lv, rv): the members of both lists, each once
unionOf(lv, rv) == lv \o SelectSeq(rv, LAMBDA x : x \notin Range(lv))

-----------------------------------------------------------------------------
(* Value Comparator *)

RECURSIVE deepEqual(_, _)
deepEqual(lvalue, rvalue) ==
    IF lvalue.k # rvalue.k THEN FALSE
    ELSE IF lvalue.k = "str" THEN lvalue.s = rvalue.s
    ELSE IF lvalue.k = "arr"
         THEN /\ Len(lvalue.kids) = Len(rvalue.kids)
              /\ \A i \in 1..Len(lvalue.kids) : deepEqual(lvalue.kids[i], rvalue.kids[i])
    ELSE IF lvalue.k = "obj"
         THEN /\ Len(lvalue.keys) = Len(rvalue.keys)
              /\ Range(lvalue.keys) = Range(rvalue.keys)
              /\ \A key \in Range(lvalue.keys) : deepEqual(Get(lvalue, key), Get(rvalue, key))
    ELSE TRUE

-----------------------------------------------------------------------------
(* deepCopy (lines 184-198) *)

\* a faulty variant: only the outermost object is copied
deepCopyShallow(x) == IF x.k \in {"arr", "obj"} THEN [x EXCEPT !.own = "engine"] ELSE x

RECURSIVE deepCopy(_)
deepCopy(x) ==
    IF x.k = "arr"
    THEN [x EXCEPT !.kids = [i \in 1..Len(x.kids) |-> deepCopy(x.kids[i])],
                   !.own = "engine"]
    ELSE IF x.k = "obj"
    THEN [x EXCEPT !.kids = [i \in 1..Len(x.kids) |-> deepCopy(x.kids[i])],
                   !.own = "engine"]
    ELSE x

-----------------------------------------------------------------------------
(* propagateReplacedReferences (lines 141-182).  recurse yields the object  *)
(* as the in-place writes leave it.  The closure variable ret is set with   *)
(* every write and by nothing else, and every write puts a longer string in *)
(* place of logicalId: ret is true exactly when the object has changed.     *)

\* obj is a reference replaceReference (lines 156-178) returns true for
isReference(obj) ==
    /\ obj.k = "obj"
    /\ Len(obj.keys) = 1
    /\ (obj.keys[1] = "Ref" \/ StartsWith(obj.keys[1], "Fn::"))

\* a faulty variant: a Ref that already carries the marker of logicalId is
\* set back to logicalId
replaceReferenceToggle(obj, logicalId) ==
    IF obj.keys[1] = "Ref" /\ obj.kids[1].k = "str"
    THEN IF obj.kids[1].s = logicalId
         THEN [obj EXCEPT !.kids[1] = Str(logicalId \o " (replaced)")]
         ELSE IF obj.kids[1].s = logicalId \o " (replaced)"
         THEN [obj EXCEPT !.kids[1] = Str(logicalId)]
         ELSE obj
    ELSE obj

\* obj after replaceReference(obj), for an obj it returns true for
replaceReference(obj, logicalId) ==
    IF obj.keys[1] = "Ref"
    THEN IF obj.kids[1].k = "str" /\ obj.kids[1].s = logicalId
         THEN [obj EXCEPT !.kids[1] = Str(logicalId \o " (replaced)")]
         ELSE obj
    ELSE IF /\ obj.kids[1].k = "arr"
            /\ Len(obj.kids[1].kids) > 0
            /\ obj.kids[1].kids[1].k = "str"
            /\ obj.kids[1].kids[1].s = logicalId
         THEN [obj EXCEPT !.kids[1].kids[1] = Str(logicalId \o "(replaced)")]
         ELSE obj

RECURSIVE recurse(_, _)
\* xs.forEach(recurse): the values after the calls
forEachRecurse(xs, logicalId) == [i \in 1..Len(xs) |-> recurse(xs[i], logicalId)]

recurse(obj, logicalId) ==
    IF obj.k = "arr"
    THEN \* typeof [] === 'object', and an array is no reference: its elements
         \* are visited by line 146 and again by line 151
         [obj EXCEPT !.kids = forEachRecurse(forEachRecurse(obj.kids, logicalId), logicalId)]
    ELSE IF obj.k = "obj"
    THEN IF isReference(obj)
         THEN replaceReference(obj, logicalId)
         ELSE [obj EXCEPT !.kids = forEachRecurse(obj.kids, logicalId)]
    ELSE obj

RECURSIVE holdsReference(_)
\* some object of the tree is a reference
holdsReference(obj) ==
    \/ isReference(obj)
    \/ \E i \in 1..Len(obj.kids) : holdsReference(obj.kids[i])

\* a faulty variant: ret is set for every reference met, rewritten or not
propagateReplacedReferencesAnyReference(template, logicalId) ==
    [obj |-> recurse(template, logicalId), ret |-> holdsReference(template)]

\* the template after the call, and the value the call returns
propagateReplacedReferences(template, logicalId) ==
    LET after == recurse(template, logicalId)
    IN [obj |-> after, ret |-> after # template]

-----------------------------------------------------------------------------
(* Differences (./diff/types, described in the specification's data model) *)

NO_CHANGE == "NO_CHANGE"
WILL_UPDATE == "WILL_UPDATE"
MAY_REPLACE == "MAY_REPLACE"
WILL_REPLACE == "WILL_REPLACE"
ADDED == "ADDED"
REMOVED == "REMOVED"

\* severity order NO_CHANGE < WILL_UPDATE < MAY_REPLACE < WILL_REPLACE
Severity(impact) ==
    CASE impact = NO_CHANGE -> 0
      [] impact = WILL_UPDATE -> 1
      [] impact = MAY_REPLACE -> 2
      [] impact = WILL_REPLACE -> 3
      [] OTHER -> 4

worstImpact(one, two) == IF Severity(two) > Severity(one) THEN two ELSE one

\* Difference<T>
Difference(oldValue, newValue) == [oldValue |-> oldValue, newValue |-> newValue]

\* an attribute of the template diff that no handler has assigned
NoDifference == [assigned |-> FALSE, oldValue |-> Undef, newValue |-> Undef]

AssignedDifference(oldValue, newValue) ==
    [assigned |-> TRUE, oldValue |-> oldValue, newValue |-> newValue]

PropertyDifference(oldValue, newValue, impact) ==
    [oldValue |-> oldValue, newValue |-> newValue, changeImpact |-> impact]

\* the entry of a keyed collection
Entry(key, d) == [key |-> key, d |-> d]

EntryKeys(coll) == {coll[i].key : i \in 1..Len(coll)}

EntryAt(coll, key) == coll[CHOOSE i \in 1..Len(coll) : coll[i].key = key].d

\* an ordered-by-key collection with the entry of key set to d
PutEntry(coll, key, d) ==
    IF key \in EntryKeys(coll)
    THEN [i \in 1..Len(coll) |-> IF coll[i].key = key THEN Entry(key, d) ELSE coll[i]]
    ELSE LET before == SelectSeq(coll, LAMBDA e : StrLess(e.key, key))
             after == SelectSeq(coll, LAMBDA e : ~StrLess(e.key, key))
         IN before \o <<Entry(key, d)>> \o after

-----------------------------------------------------------------------------
(* Keyed-Entity Differ *)

diffKeyedEntities(oldValue, newValue, elementDiff(_, _, _)) ==
    LET ks == Sort(unionOf(Keys(oldValue), Keys(newValue)))
        F[i \in 0..Len(ks)] ==
            IF i = 0 THEN <<>>
            ELSE LET oldElement == Get(oldValue, ks[i])
                     newElement == Get(newValue, ks[i])
                 IN IF deepEqual(oldElement, newElement)
                    THEN F[i-1]
                    ELSE Append(F[i-1], Entry(ks[i], elementDiff(oldElement, newElement, ks[i])))
    IN F[Len(ks)]

-----------------------------------------------------------------------------
(* Section Differs *)

diffAttribute(oldValue, newValue) == AssignedDifference(oldValue, newValue)

\* diffMetadata, diffParameter, diffMapping, diffCondition, diffOutput: the
\* entity as an opaque value
diffOpaque(oldValue, newValue, key) == Difference(oldValue, newValue)

diffUnknown(oldValue, newValue) == Difference(oldValue, newValue)

-----------------------------------------------------------------------------
(* The replacement oracle (types.ResourceReplacements): a list of entries   *)
(* [key, resourceReplaced, propertiesReplaced], propertiesReplaced a list   *)
(* of entries [key, d] with d "Always", "Never" or "Conditionally";         *)
(* defined is FALSE for the undefined of a call without change set.         *)

NoReplacements == [defined |-> FALSE, entries |-> <<>>]

\* replacements?.[logicalId]?.propertiesReplaced[propertyName], "" when missing
OracleVerdict(repl, logicalId, propertyName) ==
    IF \E i \in 1..Len(repl.entries) :
           /\ repl.entries[i].key = logicalId
           /\ propertyName \in EntryKeys(repl.entries[i].propertiesReplaced)
    THEN LET e == CHOOSE e \in Range(repl.entries) : e.key = logicalId
         IN EntryAt(e.propertiesReplaced, propertyName)
    ELSE ""

\* Static replacement metadata of the resource types: property -> UpdateType
StaticReplacement(resourceType, propertyName) ==
    CASE propertyName = "Name" -> "Always"
      [] propertyName = "Source" -> "Always"
      [] propertyName = "Cond" -> "Conditionally"
      [] propertyName = "Tags" -> "Never"
      [] OTHER -> "Unknown"

VerdictImpact(verdict) ==
    CASE verdict = "Always" -> WILL_REPLACE
      [] verdict = "Conditionally" -> MAY_REPLACE
      [] verdict = "Never" -> WILL_UPDATE
      [] OTHER -> WILL_UPDATE

-----------------------------------------------------------------------------
(* Resource Differ *)

\* the impact of a changed property: oracle, then static metadata, then WILL_UPDATE
PropertyImpact(resourceType, logicalId, propertyName, repl) ==
    LET verdict == OracleVerdict(repl, logicalId, propertyName)
    IN IF verdict # ""
       THEN VerdictImpact(verdict)
       ELSE VerdictImpact(StaticReplacement(resourceType, propertyName))

ResourceDifference(oldValue, newValue, oldType, newType, propertyDiffs, otherDiffs) ==
    [oldValue |-> oldValue, newValue |-> newValue,
     oldType |-> oldType, newType |-> newType,
     propertyDiffs |-> propertyDiffs, otherDiffs |-> otherDiffs]

diffResource(oldValue, newValue, logicalId, repl, keepMetadata) ==
    LET oldType == Get(oldValue, "Type")
        newType == Get(newValue, "Type")
        sameType == /\ oldValue.k # "undef"
                    /\ newValue.k # "undef"
                    /\ deepEqual(oldType, newType)
        propertyDiffs ==
            IF sameType
            THEN diffKeyedEntities(Get(oldValue, "Properties"), Get(newValue, "Properties"),
                     LAMBDA o, n, name :
                         PropertyDifference(o, n, PropertyImpact(oldType.s, logicalId, name, repl)))
            ELSE <<>>
        dropped == IF keepMetadata = "true" THEN {"Properties"} ELSE {"Properties", "Metadata"}
        otherDiffs ==
            IF sameType
            THEN SelectSeq(diffKeyedEntities(oldValue, newValue, diffOpaque),
                           LAMBDA e : e.key \notin dropped)
            ELSE <<>>
    IN ResourceDifference(oldValue, newValue, oldType, newType, propertyDiffs, otherDiffs)

\* the unchanged difference a lookup synthesizes for a key the collection lacks
UnchangedResourceDifference == ResourceDifference(Undef, Undef, Undef, Undef, <<>>, <<>>)

RECURSIVE WorstOf(_, _)
\* propertyDiffs.map(d => d.changeImpact).reduce(worstImpact, base)
WorstOf(propertyDiffs, base) ==
    IF propertyDiffs = <<>> THEN base
    ELSE WorstOf(Tail(propertyDiffs), worstImpact(base, Head(propertyDiffs).d.changeImpact))

\* a faulty variant: the impact of the last property decides
changeImpactLastProperty(rd) ==
    IF rd.oldValue.k = "undef" /\ rd.newValue.k # "undef" THEN ADDED
    ELSE IF rd.newValue.k = "undef" /\ rd.oldValue.k # "undef" THEN REMOVED
    ELSE IF ~deepEqual(rd.oldType, rd.newType) THEN WILL_REPLACE
    ELSE IF rd.propertyDiffs # <<>>
    THEN rd.propertyDiffs[Len(rd.propertyDiffs)].d.changeImpact
    ELSE IF Len(rd.otherDiffs) > 0 THEN WILL_UPDATE ELSE NO_CHANGE

\* ResourceDifference.changeImpact, derived from the recorded differences; the
\* difference a lookup synthesized has neither value, and its impact is that of
\* the property differences set on it since
changeImpact(rd) ==
    IF rd.oldValue.k = "undef" /\ rd.newValue.k # "undef" THEN ADDED
    ELSE IF rd.newValue.k = "undef" /\ rd.oldValue.k # "undef" THEN REMOVED
    ELSE IF ~deepEqual(rd.oldType, rd.newType) THEN WILL_REPLACE
    ELSE WorstOf(rd.propertyDiffs, IF Len(rd.otherDiffs) > 0 THEN WILL_UPDATE ELSE NO_CHANGE)

\* ResourceDifference.setPropertyChange(propertyName, change)
setPropertyChange(rd, propertyName, change) ==
    [rd EXCEPT !.propertyDiffs = PutEntry(@, propertyName, change)]

\* DifferenceCollection.get(logicalId)
CollectionGet(coll, logicalId) ==
    IF logicalId \in EntryKeys(coll) THEN EntryAt(coll, logicalId)
    ELSE UnchangedResourceDifference

-----------------------------------------------------------------------------
(* DIFF_HANDLERS (lines 13-32) and calculateTemplateDiff (lines 104-127)    *)

\* types.ITemplateDiff as the TemplateDiff constructor reads it: an attribute
\* no handler assigned is NoDifference, a collection no handler assigned is empty
EmptyTemplateDiff ==
    [awsTemplateFormatVersion |-> NoDifference,
     description |-> NoDifference,
     transform |-> NoDifference,
     metadata |-> <<>>,
     parameters |-> <<>>,
     mappings |-> <<>>,
     conditions |-> <<>>,
     resources |-> <<>>,
     outputs |-> <<>>,
     unknown |-> <<>>]

HandledSections == {"AWSTemplateFormatVersion", "Description", "Metadata", "Parameters",
                    "Mappings", "Conditions", "Transform", "Resources", "Outputs"}

\* keys for which DIFF_HANDLERS[key] (line 118) is not undefined although
\* DIFF_HANDLERS has no such key of its own: DIFF_HANDLERS is an object literal,
\* and the lookup finds what it inherits from Object.prototype.  For these
\* keys the value found is a function that, called as a handler, returns
\* without recording anything and without throwing.
InheritedHandlers == {"constructor", "toString", "toLocaleString"}

\* a faulty variant: the old and the new value change places
ResourcesHandlerSwapped(diff, oldValue, newValue, repl, keepMetadata) ==
    [diff EXCEPT !.resources =
        diffKeyedEntities(newValue, oldValue,
            LAMBDA o, n, logicalId : diffResource(o, n, logicalId, repl, keepMetadata))]

\* a faulty variant: the oracle is not handed on
ResourcesHandlerNoOracle(diff, oldValue, newValue, repl, keepMetadata) ==
    [diff EXCEPT !.resources =
        diffKeyedEntities(oldValue, newValue,
            LAMBDA o, n, logicalId : diffResource(o, n, logicalId, NoReplacements, keepMetadata))]

\* DIFF_HANDLERS.Resources
ResourcesHandler(diff, oldValue, newValue, repl, keepMetadata) ==
    [diff EXCEPT !.resources =
        diffKeyedEntities(oldValue, newValue,
            LAMBDA o, n, logicalId : diffResource(o, n, logicalId, repl, keepMetadata))]

\* DIFF_HANDLERS[key](diff, oldValue, newValue, replacements, keepMetadata)
DiffHandler(key, diff, oldValue, newValue, repl, keepMetadata) ==
    CASE key = "AWSTemplateFormatVersion" ->
            [diff EXCEPT !.awsTemplateFormatVersion = diffAttribute(oldValue, newValue)]
      [] key = "Description" ->
            [diff EXCEPT !.description = diffAttribute(oldValue, newValue)]
      [] key = "Metadata" ->
            [diff EXCEPT !.metadata = diffKeyedEntities(oldValue, newValue, diffOpaque)]
      [] key = "Parameters" ->
            [diff EXCEPT !.parameters = diffKeyedEntities(oldValue, newValue, diffOpaque)]
      [] key = "Mappings" ->
            [diff EXCEPT !.mappings = diffKeyedEntities(oldValue, newValue, diffOpaque)]
      [] key = "Conditions" ->
            [diff EXCEPT !.conditions = diffKeyedEntities(oldValue, newValue, diffOpaque)]
      [] key = "Transform" ->
            [diff EXCEPT !.transform = diffAttribute(oldValue, newValue)]
      [] key = "Resources" ->
            ResourcesHandler(diff, oldValue, newValue, repl, keepMetadata)
      [] key = "Outputs" ->
            [diff EXCEPT !.outputs = diffKeyedEntities(oldValue, newValue, diffOpaque)]

\* a faulty variant: line 115 is missing, the handler runs for equal values too
DiffSectionNoSkip(diff, key, cur, new, repl, keepMetadata) ==
    IF key \in HandledSections
    THEN DiffHandler(key, diff, Get(cur, key), Get(new, key), repl, keepMetadata)
    ELSE IF key \in InheritedHandlers
    THEN diff
    ELSE [diff EXCEPT !.unknown = Append(@, Entry(key, diffUnknown(Get(cur, key), Get(new, key))))]

\* one round of the loop of lines 112-121 for one top-level key
DiffSection(diff, key, cur, new, repl, keepMetadata) ==
    LET oldValue == Get(cur, key)
        newValue == Get(new, key)
    IN IF deepEqual(oldValue, newValue)
       THEN diff
       ELSE IF key \in HandledSections
       THEN DiffHandler(key, diff, oldValue, newValue, repl, keepMetadata)
       ELSE IF key \in InheritedHandlers
       THEN \* the handler found is Object or Object.prototype.toString
            diff
       ELSE [diff EXCEPT !.unknown = Append(@, Entry(key, diffUnknown(oldValue, newValue)))]

\* a faulty variant: line 112 without sort()
TemplateKeysUnsorted(cur, new) == unionOf(Keys(cur), Keys(new))

\* the keys the loop of line 112 visits, in its order
TemplateKeys(cur, new) == Sort(unionOf(Keys(cur), Keys(new)))

calculateTemplateDiff(cur, new, repl, keepMetadata) ==
    LET ks == TemplateKeys(cur, new)
        F[i \in 0..Len(ks)] ==
            IF i = 0 THEN EmptyTemplateDiff
            ELSE DiffSection(F[i-1], ks[i], cur, new, repl, keepMetadata)
    IN F[Len(ks)]

-----------------------------------------------------------------------------
(* findResourceReplacements (lines 200-225)                                *)
(* A change set is [present, Changes]; a change is [LogicalResourceId,     *)
(* Replacement, Details]; a detail is [Attribute, Name, RequiresRecreation,*)
(* Evaluation].                                                            *)

\* a faulty variant: an assignment to a key that is already there is ignored
AssignEntryKeepFirst(entries, e) ==
    IF \E i \in 1..Len(entries) : entries[i].key = e.key
    THEN entries
    ELSE Append(entries, e)

\* obj[key] = d on a list of entries in insertion order
AssignEntry(entries, e) ==
    IF \E i \in 1..Len(entries) : entries[i].key = e.key
    THEN [i \in 1..Len(entries) |-> IF entries[i].key = e.key THEN e ELSE entries[i]]
    ELSE Append(entries, e)

\* a faulty variant: line 205 is missing, details of every attribute are recorded
recordPropertyChangeAnyAttribute(propertiesReplaced, propertyChange) ==
    LET requiresReplacement == propertyChange.RequiresRecreation = "Always"
    IN IF requiresReplacement /\ propertyChange.Evaluation = "Static"
       THEN AssignEntry(propertiesReplaced, Entry(propertyChange.Name, "Always"))
       ELSE IF requiresReplacement /\ propertyChange.Evaluation = "Dynamic"
       THEN AssignEntry(propertiesReplaced, Entry(propertyChange.Name, "Conditionally"))
       ELSE AssignEntry(propertiesReplaced,
                        Entry(propertyChange.Name, propertyChange.RequiresRecreation))

\* a faulty variant: Evaluation is not looked at
recordPropertyChangeNoEvaluation(propertiesReplaced, propertyChange) ==
    IF propertyChange.Attribute = "Properties"
    THEN AssignEntry(propertiesReplaced,
                     Entry(propertyChange.Name, propertyChange.RequiresRecreation))
    ELSE propertiesReplaced

\* the body of the loop of lines 204-217 for one detail
recordPropertyChange(propertiesReplaced, propertyChange) ==
    IF propertyChange.Attribute = "Properties"
    THEN LET requiresReplacement == propertyChange.RequiresRecreation = "Always"
         IN IF requiresReplacement /\ propertyChange.Evaluation = "Static"
            THEN AssignEntry(propertiesReplaced, Entry(propertyChange.Name, "Always"))
            ELSE IF requiresReplacement /\ propertyChange.Evaluation = "Dynamic"
            THEN AssignEntry(propertiesReplaced, Entry(propertyChange.Name, "Conditionally"))
            ELSE AssignEntry(propertiesReplaced,
                             Entry(propertyChange.Name, propertyChange.RequiresRecreation))
    ELSE propertiesReplaced

RECURSIVE propertiesReplacedOf(_, _)
propertiesReplacedOf(acc, details) ==
    IF details = <<>> THEN acc
    ELSE propertiesReplacedOf(recordPropertyChange(acc, Head(details)), Tail(details))

\* the body of the loop of lines 202-222 for one resource change
recordResourceChange(entries, resourceChange) ==
    AssignEntry(entries,
        [key |-> resourceChange.LogicalResourceId,
         resourceReplaced |-> resourceChange.Replacement = "True",
         propertiesReplaced |-> propertiesReplacedOf(<<>>, resourceChange.Details)])

RECURSIVE replacementsOf(_, _)
replacementsOf(acc, changes) ==
    IF changes = <<>> THEN acc
    ELSE replacementsOf(recordResourceChange(acc, Head(changes)), Tail(changes))

findResourceReplacements(cs) ==
    [defined |-> TRUE, entries |-> replacementsOf(<<>>, cs.Changes)]

-----------------------------------------------------------------------------
(* diffTemplate (lines 44-86)                                              *)

isReplacement(impact) == impact = MAY_REPLACE \/ impact = WILL_REPLACE

RECURSIVE propagateOver(_, _)
\* propagatePropertyReplacement (lines 95-102): entries are source.propertyUpdates
propagateOver(entries, dest) ==
    IF entries = <<>> THEN dest
    ELSE LET e == Head(entries)
         IN propagateOver(Tail(entries),
                IF isReplacement(e.d.changeImpact)
                THEN setPropertyChange(dest, e.key, e.d)
                ELSE dest)

RECURSIVE propagateImpactOver(_, _)
\* propagateOver with the impact alone taken from source: the values are
\* those dest records for the property, none when it records no difference
propagateImpactOver(entries, dest) ==
    IF entries = <<>> THEN dest
    ELSE LET e == Head(entries)
             values == IF e.key \in EntryKeys(dest.propertyDiffs)
                       THEN EntryAt(dest.propertyDiffs, e.key)
                       ELSE [e.d EXCEPT !.oldValue = Undef, !.newValue = Undef]
         IN propagateImpactOver(Tail(entries),
                IF isReplacement(e.d.changeImpact)
                THEN setPropertyChange(dest, e.key,
                                       [values EXCEPT !.changeImpact = e.d.changeImpact])
                ELSE dest)

\* a faulty variant: the impact is propagated, the property difference is not
propagatePropertyReplacementImpactOnly(source, dest) ==
    propagateImpactOver(source.propertyDiffs, dest)

\* a faulty variant: dest takes over the property differences of source
propagatePropertyReplacementOverwrite(source, dest) ==
    [dest EXCEPT !.propertyDiffs = source.propertyDiffs]

propagatePropertyReplacement(source, dest) == propagateOver(source.propertyDiffs, dest)

\* a faulty variant: references to a MAY_REPLACE resource are rewritten as well
propagateOneAnyReplacement(acc, logicalId, change) ==
    IF isReplacement(changeImpact(change))
    THEN LET r == propagateReplacedReferences(acc.obj, logicalId)
         IN  [obj |-> r.obj, ret |-> acc.ret \/ r.ret]
    ELSE acc

\* lines 65-69 for one resource difference: acc is the working copy and
\* didPropagateReferenceChanges so far
propagateOne(acc, logicalId, change) ==
    IF changeImpact(change) = WILL_REPLACE
    THEN \* line 66: the call is made whatever didPropagateReferenceChanges holds
         LET r == propagateReplacedReferences(acc.obj, logicalId)
         IN  [obj |-> r.obj, ret |-> acc.ret \/ r.ret]
    ELSE acc

RECURSIVE propagateAll(_, _)
\* lines 63-71: forEachDifference over the resources of the recomputed diff
propagateAll(acc, resources) ==
    IF resources = <<>> THEN acc
    ELSE propagateAll(propagateOne(acc, Head(resources).key, Head(resources).d),
                      Tail(resources))

RECURSIVE copyReplacedStates(_, _)
\* lines 75-83: copy "replaced" states from diffWithReplacements to theDiff
copyReplacedStates(resources, downstream) ==
    IF downstream = <<>> THEN resources
    ELSE LET e == Head(downstream)
             resource == CollectionGet(resources, e.key)
         IN copyReplacedStates(
                IF isReplacement(changeImpact(e.d))
                   /\ changeImpact(resource) # changeImpact(e.d)
                THEN PutEntry(resources, e.key, propagatePropertyReplacement(e.d, resource))
                ELSE resources,
                Tail(downstream))

RECURSIVE WriteThrough(_, _)
\* a caller-owned object reached through the working copy is the caller's
\* object: orig as it is once the working copy holds copy
WriteThrough(orig, copy) ==
    IF copy.k \in {"arr", "obj"} /\ copy.own = "caller" THEN copy
    ELSE IF copy.k \in {"arr", "obj"} /\ orig.k = copy.k /\ Len(orig.kids) = Len(copy.kids)
    THEN [orig EXCEPT !.kids = [i \in 1..Len(orig.kids) |-> WriteThrough(orig.kids[i], copy.kids[i])]]
    ELSE orig

RECURSIVE propagationLoop(_, _, _)
\* lines 56-72: the diff the do/while loop ends with
propagationLoop(cur, copy, repl) ==
    LET diff == calculateTemplateDiff(cur, copy, repl, "undefined")
        r == propagateAll([obj |-> copy, ret |-> FALSE], diff.resources)
    IN IF r.ret THEN propagationLoop(cur, r.obj, repl) ELSE diff

\* the value a call of diffTemplate returns
diffTemplate(cur, new, cs) ==
    LET repl == IF cs.present THEN findResourceReplacements(cs) ELSE NoReplacements
        base == calculateTemplateDiff(cur, new, repl, IF cs.present THEN "false" ELSE "true")
        downstream == propagationLoop(cur, deepCopy(new), repl)
    IN [base EXCEPT !.resources = copyReplacedStates(@, downstream.resources)]

-----------------------------------------------------------------------------
(* The inputs of a call *)

\* number of logical ids a template draws its resources from
NumIds == 3
\* longest list of property details of one resource change
MaxDetails == 2
\* the loop counter stops counting here
MaxIterations == 5

AllIds == <<"A", "B", "C", "D", "E", "F">>
Ids == SubSeq(AllIds, 1, NumIds)

\* the logical id the resource at position i refers to: its predecessor on a ring
Target(i) == Ids[IF i = 1 THEN NumIds ELSE i - 1]

Forms == {"Ref", "GetAtt", "Join", "List"}

\* a value that embeds a reference expression to logical id
Reference(form, id) ==
    CASE form = "Ref" -> Obj1("Ref", Str(id))
      [] form = "GetAtt" -> Obj1("Fn::GetAtt", Arr(<<Str(id), Str("Arn")>>))
      [] form = "Join" -> Obj1("Fn::Join", Arr(<<Str(""), Arr(<<Obj1("Ref", Str(id))>>)>>))
      [] form = "List" -> Arr(<<Obj1("Ref", Str(id))>>)

\* the same value with the marker string a rewrite leaves in place of id
Replaced(form, id) ==
    IF form = "GetAtt" THEN Reference(form, id \o "(replaced)")
    ELSE Reference(form, id \o " (replaced)")

Resource(type, propertyNames, propertyValues) ==
    Obj(<<"Type", "Properties">>, <<Str(type), Obj(propertyNames, propertyValues)>>)

WithMetadata(resource, text) == SetKey(resource, "Metadata", Obj1("note", Str(text)))

Plain == Resource("T1", <<"Name">>, <<Str("x")>>)
Renamed == Resource("T1", <<"Name">>, <<Str("y")>>)
\* the resource at position i with a Source that refers to its target
Linked(i, form) ==
    Resource("T1", <<"Name", "Source">>, <<Str("x"), Reference(form, Target(i))>>)

\* the old and the new body of the resource at position i, Undef when absent
ResourcePairs(i, form) ==
    LET ref == Reference(form, Target(i))
        linked == Linked(i, form)
    IN << <<Undef, Undef>>,
          <<linked, linked>>,
          <<linked, Resource("T1", <<"Source", "Name">>, <<ref, Str("y")>>)>>,
          <<Undef, linked>>,
          <<Resource("T1", <<"Cond", "Source">>, <<Str("x"), Replaced(form, Target(i))>>),
            Resource("T1", <<"Cond", "Source">>, <<Str("y"), ref>>)>>,
          <<Plain, Undef>>,
          <<linked, Resource("T2", <<"Name", "Source">>, <<Str("x"), ref>>)>>,
          <<Resource("T1", <<"Cond", "Extra", "Source">>, <<Str("x"), Str("e1"), ref>>),
            Resource("T1", <<"Cond", "Extra", "Source">>, <<Str("y"), Str("e2"), ref>>)>>,
          <<Resource("T1", <<"Tags">>, <<ref>>), Resource("T1", <<"Tags">>, <<ref>>)>>,
          <<WithMetadata(linked, "m1"), WithMetadata(linked, "m2")>> >>

\* the pairs tried at every position, those tried at the first two positions,
\* those tried with every form of reference and those tried with a change set
LinkPairs == 1..5
AllPairs == 1..10
FormPairs == 2..5
OraclePairs == {1, 2, 3, 7, 8, 10}

\* a pair out of first for each of the first two positions, out of rest for
\* the other ones
Picks(first, rest) ==
    {pick \in [1..NumIds -> first \cup rest] : \A i \in 3..NumIds : pick[i] \in rest}

\* the bodies picked by pick, a pair number for each position
Bodies(pick, form) == [i \in 1..NumIds |-> ResourcePairs(i, form)[pick[i]]]

\* the first resource renamed, every other one referring to its predecessor
Chain(form) ==
    [i \in 1..NumIds |-> IF i = 1 THEN <<Plain, Renamed>> ELSE <<Linked(i, form), Linked(i, form)>>]

\* every resource unchanged and referring to its predecessor
Unchanged(form) == [i \in 1..NumIds |-> <<Linked(i, form), Linked(i, form)>>]

RECURSIVE SectionOf(_, _, _)
\* the mapping of the bodies picked for positions i..1, logical ids in
\* descending order (an order sort() has to undo)
SectionOf(pick, side, i) ==
    IF i = 0 THEN EmptyObj
    ELSE LET rest == SectionOf(pick, side, i - 1)
             body == pick[i][side]
         IN IF body.k = "undef" THEN rest
            ELSE Obj(<<Ids[i]>> \o rest.keys, <<body>> \o rest.kids)

\* old and new value of a top-level key other than Resources
SectionPairs(key) ==
    LET one == IF key = "Outputs" THEN Obj1("Out", Obj1("Value", Str("v1"))) ELSE Str(key \o "1")
        two == IF key = "Outputs" THEN Obj1("Out", Obj1("Value", Str("v2"))) ELSE Str(key \o "2")
    IN << <<Undef, Undef>>, <<one, one>>, <<one, two>>, <<Undef, one>>, <<one, Undef>> >>

ExtraKeys == <<"Zeta", "Outputs", "Description", "Custom">>

RECURSIVE WithSections(_, _, _, _)
WithSections(template, pick, side, i) ==
    IF i = 0 THEN template
    ELSE LET rest == WithSections(template, pick, side, i - 1)
         IN IF pick[i][side].k = "undef" THEN rest
            ELSE SetKey(rest, ExtraKeys[i], pick[i][side])

Template(resources, sections, side) ==
    LET section == SectionOf(resources, side, NumIds)
        base == IF section.keys = <<>> THEN EmptyObj ELSE Obj1("Resources", section)
    IN WithSections(base, sections, side, Len(ExtraKeys))

NoSections == [i \in 1..Len(ExtraKeys) |-> <<Undef, Undef>>]

NoChangeSet == [present |-> FALSE, Changes |-> <<>>]

Detail(attribute, name, requiresRecreation, evaluation) ==
    [Attribute |-> attribute, Name |-> name,
     RequiresRecreation |-> requiresRecreation, Evaluation |-> evaluation]

Change(logicalId, replacement, details) ==
    [LogicalResourceId |-> logicalId, Replacement |-> replacement, Details |-> details]

ChangeSetOf(changes) == [present |-> TRUE, Changes |-> changes]

Details ==
    {Detail("Properties", n, r, e) :
        n \in {"Name", "Source"}, r \in {"Always", "Never", "Conditionally"},
        e \in {"Static", "Dynamic"}}
    \cup {Detail("Metadata", "Name", "Never", "Static")}

DetailLists == UNION {[1..n -> Details] : n \in 0..MaxDetails}

\* change sets used together with many templates
SmallChangeSets ==
    { ChangeSetOf(<<Change("A", "False", <<Detail("Properties", "Name", "Never", "Static")>>)>>),
      ChangeSetOf(<<Change("A", "True", <<Detail("Properties", "Name", "Always", "Dynamic")>>)>>),
      ChangeSetOf(<<Change("B", "False", <<Detail("Properties", "Source", "Never", "Static")>>),
                    Change("A", "True", <<Detail("Properties", "Name", "Always", "Static")>>)>>),
      ChangeSetOf(<<Change("B", "True", <<Detail("Properties", "Source", "Conditionally", "Dynamic")>>)>>) }

\* change sets used with ChangeSetTemplates
RichChangeSets ==
    {ChangeSetOf(<<Change("A", "True", ds)>>) : ds \in DetailLists}
    \cup {ChangeSetOf(<<Change("B", "True", <<d>>)>>) : d \in Details}
    \cup {ChangeSetOf(<<Change("A", "True", <<d1>>), Change("A", "False", <<d2>>)>>) :
            d1 \in Details, d2 \in Details}
    \cup {ChangeSetOf(<<>>)}

\* A with three changed properties, B referring to A
ChangeSetTemplates ==
    [cs |-> NoChangeSet,
     cur |-> Obj1("Resources", Obj(<<"A", "B">>,
                <<Resource("T1", <<"Name", "Source", "Extra">>, <<Str("x"), Str("s1"), Str("e1")>>),
                  Resource("T1", <<"Name", "Source">>, <<Str("x"), Obj1("Ref", Str("A"))>>)>>)),
     new |-> Obj1("Resources", Obj(<<"A", "B">>,
                <<Resource("T1", <<"Name", "Source", "Extra">>, <<Str("y"), Str("s2"), Str("e2")>>),
                  Resource("T1", <<"Name", "Source">>, <<Str("x"), Obj1("Ref", Str("A"))>>)>>))]

\* the marker string a rewrite of a reference of the form to id leaves
MarkerOf(form, id) == IF form = "Ref" THEN id \o " (replaced)" ELSE id \o "(replaced)"

\* a Resources section with A, with B that refers to A, and with body, if
\* any, under the marker string of A as its logical id
MarkerSection(form, body, a) ==
    LET linked == Linked(2, form)
    IN IF body.k = "undef" THEN Obj(<<"B", "A">>, <<linked, a>>)
       ELSE Obj(<<"B", MarkerOf(form, "A"), "A">>, <<linked, body, a>>)

\* template pairs in which the marker string of the replaced A is a logical
\* id: the resource of that name is unchanged, replaced, added or removed
MarkerTemplates ==
    {[cur |-> Obj1("Resources", MarkerSection(form, pair[1], Plain)),
      new |-> Obj1("Resources", MarkerSection(form, pair[2], Renamed)),
      cs |-> NoChangeSet] :
        pair \in {<<Plain, Plain>>, <<Plain, Renamed>>, <<Undef, Plain>>, <<Plain, Undef>>},
        form \in {"Ref", "GetAtt"}}

\* a template pair in which the marker string of A is a logical id and the old
\* template already holds the marker string of B: the resource named like the
\* marker is in the recomputed diff, leaves it, and comes back
MarkerRing ==
    LET toMarker == Resource("T1", <<"Name", "Source">>, <<Str("x"), Reference("Ref", MarkerOf("Ref", "A"))>>)
        toB == Resource("T1", <<"Name", "Source">>, <<Str("x"), Reference("Ref", "B")>>)
        both(b) == Resource("T1", <<"Name", "Source">>,
                            <<Str("x"), Arr(<<Obj1("Ref", Str(b)), Obj1("Ref", Str("A"))>>)>>)
        section(marked) == Obj(<<"B", MarkerOf("Ref", "A"), "A">>, <<toMarker, marked, toB>>)
    IN [cur |-> Obj1("Resources", section(both(MarkerOf("Ref", "B")))),
        new |-> Obj1("Resources", section(both("B"))),
        cs |-> NoChangeSet]

\* template pairs with an unknown top-level key that is the name of a member
\* of Object.prototype, in both templates, next to an ordinary unknown key
InheritedKeyTemplates ==
    {[cur |-> SetKey(SetKey(Obj1("Resources", Obj1("A", Plain)), key, Str("c1")), "Zeta", Str("z1")),
      new |-> SetKey(SetKey(Obj1("Resources", Obj1("A", Renamed)), key, Str(two)), "Zeta", Str("z2")),
      cs |-> NoChangeSet] :
        key \in InheritedHandlers, two \in {"c1", "c2"}}

\* old and new values of a section that are not both mappings
MalformedPairs ==
    << <<Obj1("A", Plain), Arr(<<Renamed>>)>>,
       <<Arr(<<Plain>>), Arr(<<Renamed>>)>>,
       <<Arr(<<Plain>>), Obj1("A", Renamed)>>,
       <<Arr(<<Plain>>), Arr(<<Plain, Linked(2, "Ref")>>)>> >>

\* template pairs with such a section
MalformedTemplates ==
    {[cur |-> Obj1(key, MalformedPairs[i][1]),
      new |-> Obj1(key, MalformedPairs[i][2]),
      cs |-> NoChangeSet] : key \in {"Resources", "Outputs"}, i \in 1..Len(MalformedPairs)}

\* the sections tried: every pair for the unknown keys, three for the known ones
SectionPicks ==
    {p \in [1..Len(ExtraKeys) -> 1..5] :
        \A i \in 1..Len(ExtraKeys) : ExtraKeys[i] \in HandledSections => p[i] \in 2..4}

Sections(pick) == [i \in 1..Len(ExtraKeys) |-> SectionPairs(ExtraKeys[i])[pick[i]]]

\* a template pair with the resources and the other sections picked
InputsOf(resources, sections, cs) ==
    [cur |-> Template(resources, sections, 1),
     new |-> Template(resources, sections, 2),
     cs |-> cs]

-----------------------------------------------------------------------------
(* The call diffTemplate(currentTemplate, newTemplate, changeSet), step by  *)
(* step                                                                    *)

\* no call of renderArguments is under way
RenderIdle ==
    /\ renderPc = "idle"
    /\ platform = "linux"
    /\ cmd = <<>>
    /\ rendered = <<>>
    /\ commandLine = ""

\* no call of forEnvironment is under way
SdkIdle ==
    /\ sdkPc = "idle"
    /\ provider = [defaultAccountId |-> "undefined", pluginAccounts |-> {},
                   assumeRole |-> "ok", validateCredentials |-> "ok"]
    /\ request = [account |-> "UNKNOWN-ACCOUNT", assumeRoleArn |-> "undefined"]
    /\ env = [account |-> "undefined"]
    /\ baseCreds = [source |-> "undefined", credentials |-> "undefined"]
    /\ result = [kind |-> "pending"]

\* the state a call of diffTemplate with input starts in
TemplatesInit(input) ==
    /\ pc = "start"
    /\ currentTemplate = input.cur
    /\ newTemplate = input.new
    /\ changeSet = input.cs
    /\ currentTemplate0 = input.cur
    /\ newTemplate0 = input.new
    /\ replacements = NoReplacements
    /\ theDiff = EmptyTemplateDiff
    /\ newTemplateCopy = Undef
    /\ diffWithReplacements = EmptyTemplateDiff
    /\ didPropagateReferenceChanges = FALSE
    /\ iterations = 0

InitWith(input) == TemplatesInit(input) /\ SdkIdle /\ RenderIdle

Init ==
    \/ \E pick \in Picks(AllPairs, LinkPairs) :
           InitWith(InputsOf(Bodies(pick, "Ref"), NoSections, NoChangeSet))
    \/ \E form \in Forms \ {"Ref"}, pick \in Picks(FormPairs, FormPairs) :
           InitWith(InputsOf(Bodies(pick, form), NoSections, NoChangeSet))
    \/ \E pick \in Picks(OraclePairs, {2, 3}), cs \in SmallChangeSets :
           InitWith(InputsOf(Bodies(pick, "Ref"), NoSections, cs))
    \/ \E pick \in SectionPicks, resources \in {Chain("Ref"), Unchanged("GetAtt")} :
           InitWith(InputsOf(resources, Sections(pick), NoChangeSet))
    \/ \E cs \in RichChangeSets :
           InitWith([ChangeSetTemplates EXCEPT !.cs = cs])
    \/ \E input \in MalformedTemplates \cup MarkerTemplates \cup {MarkerRing}
                        \cup InheritedKeyTemplates :
           InitWith(input)

\* a faulty variant: metadata are kept when a change set is given
baseKeepMetadataWithChangeSet(cs) == IF cs.present THEN "true" ELSE "false"

\* line 51, the last argument: changeSet ? false : true
baseKeepMetadata(cs) == IF cs.present THEN "false" ELSE "true"

\* lines 49-51: the oracle and the base diff
ComputeBaseDiff ==
    /\ pc = "start"
    /\ replacements' = (IF changeSet.present THEN findResourceReplacements(changeSet)
                                             ELSE NoReplacements)
    /\ theDiff' = calculateTemplateDiff(currentTemplate, newTemplate, replacements',
                                        baseKeepMetadata(changeSet))
    /\ pc' = "copy"
    /\ UNCHANGED <<currentTemplate, newTemplate, changeSet, currentTemplate0, newTemplate0,
                   newTemplateCopy, diffWithReplacements, didPropagateReferenceChanges,
                   iterations>>
    /\ UNCHANGED <<sdkVars, renderVars>>

\* line 54: the working copy
CopyNewTemplate ==
    /\ pc = "copy"
    /\ newTemplateCopy' = deepCopy(newTemplate)
    /\ pc' = "loop"
    /\ UNCHANGED <<currentTemplate, newTemplate, changeSet, currentTemplate0, newTemplate0,
                   replacements, theDiff, diffWithReplacements,
                   didPropagateReferenceChanges, iterations>>
    /\ UNCHANGED <<sdkVars, renderVars>>

\* lines 58-72: one execution of the body of the do/while loop
PropagateIteration ==
    /\ pc = "loop"
    /\ \E diff \in {calculateTemplateDiff(currentTemplate, newTemplateCopy, replacements,
                                           "undefined")} :
       \E r \in {propagateAll([obj |-> newTemplateCopy, ret |-> FALSE], diff.resources)} :
          /\ diffWithReplacements' = diff
          /\ newTemplateCopy' = r.obj
          /\ newTemplate' = WriteThrough(newTemplate, r.obj)
          /\ didPropagateReferenceChanges' = r.ret
          /\ pc' = IF r.ret THEN "loop" ELSE "copyback"
    /\ iterations' = IF iterations < MaxIterations THEN iterations + 1 ELSE iterations
    /\ UNCHANGED <<currentTemplate, changeSet, currentTemplate0, newTemplate0,
                   replacements, theDiff>>
    /\ UNCHANGED <<sdkVars, renderVars>>

\* lines 75-85: copy the replaced states into the base diff and return it
CopyBack ==
    /\ pc = "copyback"
    /\ theDiff' = [theDiff EXCEPT
                     !.resources = copyReplacedStates(@, diffWithReplacements.resources)]
    /\ pc' = "done"
    /\ UNCHANGED <<currentTemplate, newTemplate, changeSet, currentTemplate0, newTemplate0,
                   replacements, newTemplateCopy, diffWithReplacements,
                   didPropagateReferenceChanges, iterations>>
    /\ UNCHANGED <<sdkVars, renderVars>>

Next == ComputeBaseDiff \/ CopyNewTemplate \/ PropagateIteration \/ CopyBack

Spec == Init /\ [][Next]_vars

-----------------------------------------------------------------------------
(* SdkProvider.forEnvironment (helper.ts) *)

NumAccounts == 2

Accounts == {"account" \o Indices[i + 1] : i \in 1..NumAccounts}

UNKNOWN_ACCOUNT == "UNKNOWN-ACCOUNT"

\* how the call to STS inside fromTemporaryCredentials(...)() ends
AssumeRoleOutcomes == {"ok", "ExpiredToken", "AccessDenied"}

\* credentials, with the account they belong to
Credentials(kind, account) == [kind |-> kind, account |-> account]

NoCredentials == Credentials("none", "undefined")

\* (await this.defaultAccount())?.accountId: undefined when the default
\* credentials are missing, expired or otherwise unusable
defaultAccount == provider.defaultAccountId

\* this.defaultCredentials()
defaultCredentials == Credentials("default", provider.defaultAccountId)

\* this.plugins.fetchCredentialsFor(accountId, mode): undefined when no plugin
\* supplies credentials for the account
fetchCredentialsFor(accountId) ==
    IF accountId \in provider.pluginAccounts
    THEN Credentials("plugin", accountId)
    ELSE NoCredentials

\* resolveEnvironment: the account of the environment, or the default account
resolveEnvironment(environment) ==
    [account |-> IF environment.account # UNKNOWN_ACCOUNT
                 THEN environment.account
                 ELSE defaultAccount]

\* a variant that asks the plugins before it looks at the default credentials
obtainBaseCredentialsPluginsFirst(accountId) ==
    IF fetchCredentialsFor(accountId) # NoCredentials
    THEN [source |-> "plugin", credentials |-> fetchCredentialsFor(accountId)]
    ELSE IF defaultAccount = accountId
    THEN [source |-> "correctDefault", credentials |-> defaultCredentials]
    ELSE IF defaultAccount # "undefined"
    THEN [source |-> "incorrectDefault", credentials |-> defaultCredentials]
    ELSE [source |-> "none", credentials |-> NoCredentials]

obtainBaseCredentials(accountId) ==
    IF defaultAccount = accountId
    THEN [source |-> "correctDefault", credentials |-> defaultCredentials]
    ELSE IF fetchCredentialsFor(accountId) # NoCredentials
    THEN [source |-> "plugin", credentials |-> fetchCredentialsFor(accountId)]
    ELSE IF defaultAccount # "undefined"
    THEN [source |-> "incorrectDefault", credentials |-> defaultCredentials]
    ELSE [source |-> "none", credentials |-> NoCredentials]

\* return { sdk, didAssumeRole }
Return(credentials, didAssumeRole) ==
    [kind |-> "returned", credentials |-> credentials, didAssumeRole |-> didAssumeRole]

\* throw
Throw(name) == [kind |-> "thrown", name |-> name]

\* the template variables while no call of diffTemplate is under way
TemplatesIdle ==
    /\ pc = "idle"
    /\ currentTemplate = Undef
    /\ newTemplate = Undef
    /\ changeSet = NoChangeSet
    /\ currentTemplate0 = Undef
    /\ newTemplate0 = Undef
    /\ replacements = NoReplacements
    /\ theDiff = EmptyTemplateDiff
    /\ newTemplateCopy = Undef
    /\ diffWithReplacements = EmptyTemplateDiff
    /\ didPropagateReferenceChanges = FALSE
    /\ iterations = 0

SdkInit ==
    /\ TemplatesIdle
    /\ RenderIdle
    /\ sdkPc = "resolve"
    /\ provider \in [defaultAccountId : Accounts \cup {"undefined"},
                     pluginAccounts : SUBSET Accounts,
                     assumeRole : AssumeRoleOutcomes,
                     validateCredentials : {"ok", "ExpiredToken"}]
    /\ request \in [account : Accounts \cup {UNKNOWN_ACCOUNT},
                    assumeRoleArn : {"undefined", "arn"}]
    /\ env = [account |-> "undefined"]
    /\ baseCreds = [source |-> "undefined", credentials |-> NoCredentials]
    /\ result = [kind |-> "pending"]

\* line 270
ResolveEnvironment ==
    /\ sdkPc = "resolve"
    /\ env' = resolveEnvironment(request)
    /\ IF env'.account = "undefined"
       THEN result' = Throw("Error") /\ sdkPc' = "done"
       ELSE result' = result /\ sdkPc' = "obtain"
    /\ UNCHANGED <<provider, request, baseCreds>>
    /\ UNCHANGED <<templateVars, renderVars>>

\* line 272
ObtainBaseCredentials ==
    /\ sdkPc = "obtain"
    /\ baseCreds' = obtainBaseCredentials(env.account)
    /\ sdkPc' = "check"
    /\ UNCHANGED <<provider, request, env, result>>
    /\ UNCHANGED <<templateVars, renderVars>>

\* lines 275 to 291
UseBaseCredentials ==
    /\ sdkPc = "check"
    /\ IF baseCreds.source = "none"
       THEN result' = Throw("Error") /\ sdkPc' = "done"
       ELSE IF request.assumeRoleArn = "undefined"
       THEN /\ result' = IF baseCreds.source = "incorrectDefault"
                         THEN Throw("Error")
                         ELSE IF provider.validateCredentials # "ok"
                         THEN Throw(provider.validateCredentials)
                         ELSE Return(baseCreds.credentials, FALSE)
            /\ sdkPc' = "done"
       ELSE result' = result /\ sdkPc' = "assume"
    /\ UNCHANGED <<provider, request, env, baseCreds>>
    /\ UNCHANGED <<templateVars, renderVars>>

\* line 294 with withAssumedRole, and the return of line 298: the call that
\* assumes the role stands before the try block, so what it throws leaves
\* forEnvironment
WithAssumedRole ==
    /\ sdkPc = "assume"
    /\ result' = IF provider.assumeRole = "ok"
                 THEN Return(Credentials("assumed", env.account), TRUE)
                 ELSE IF provider.assumeRole = "ExpiredToken"
                 THEN Throw("ExpiredToken")
                 ELSE Throw("Error")
    /\ sdkPc' = "done"
    /\ UNCHANGED <<provider, request, env, baseCreds>>
    /\ UNCHANGED <<templateVars, renderVars>>

SdkNext == ResolveEnvironment \/ ObtainBaseCredentials \/ UseBaseCredentials \/ WithAssumedRole

SdkSpec == SdkInit /\ [][SdkNext]_vars

-----------------------------------------------------------------------------
(* renderCommandLine and renderArguments (helper.ts lines 10 to 68)         *)

\* longest argument tried
MaxArgLen == 2

\* the characters the two escaping rules look for, and a plain one
Chars == {"a", " ", "\\", "!", "\"", "'", "&", "$", "^", "%"}

RECURSIVE StringsUpTo(_)
\* the strings over Chars of at most n characters
StringsUpTo(n) ==
    IF n = 0 THEN {""}
    ELSE LET shorter == StringsUpTo(n - 1)
         IN shorter \cup {str \o c : str \in shorter, c \in Chars}

\* x.split('')
split(x) == [i \in 1..Len(x) |-> SubSeq(x, i, i)]

RECURSIVE join(_, _)
\* parts.join(separator)
join(parts, separator) ==
    IF parts = <<>> THEN ""
    ELSE IF Len(parts) = 1 THEN parts[1]
    ELSE parts[1] \o separator \o join(Tail(parts), separator)

\* hasAnyChars(...chars)(str)
hasAnyChars(chars, str) == \E c \in chars : c \in Range(split(str))

\* posixEscape (lines 49 to 53)
posixEscape(x) ==
    "'" \o join([i \in 1..Len(x) |-> IF SubSeq(x, i, i) = "'" THEN "'\"'\"'" ELSE SubSeq(x, i, i)], "")
        \o "'"

shellMeta == {"\"", "&", "^", "%"}

\* windowsEscape (lines 62 to 68): the test of line 67 is shellMeta.has(x),
\* with x the whole quoted string
windowsEscape(x) ==
    LET quoted == "\"" \o x \o "\""
    IN join([i \in 1..Len(quoted) |->
                 IF quoted \in shellMeta THEN "^" \o SubSeq(quoted, i, i)
                                         ELSE SubSeq(quoted, i, i)], "")

\* renderArguments (lines 20 to 26) with doRender (lines 31 to 33)
renderArguments(os, args) ==
    IF os # "win32"
    THEN [i \in 1..Len(args) |->
             IF hasAnyChars({" ", "\\", "!", "\"", "'", "&", "$"}, args[i])
             THEN posixEscape(args[i]) ELSE args[i]]
    ELSE [i \in 1..Len(args) |->
             IF hasAnyChars({" ", "\"", "&", "^", "%"}, args[i])
             THEN windowsEscape(args[i]) ELSE args[i]]

\* renderCommandLine (lines 10 to 12)
renderCommandLine(os, args) == join(renderArguments(os, args), " ")

\* the commands tried: one argument, or one argument and a second one
Commands ==
    {<<x>> : x \in StringsUpTo(MaxArgLen)}
        \cup {<<x, y>> : x \in StringsUpTo(MaxArgLen), y \in {"a", "a&"}}

RenderInit ==
    /\ TemplatesIdle
    /\ SdkIdle
    /\ renderPc = "call"
    /\ platform \in {"win32", "linux"}
    /\ cmd \in Commands
    /\ rendered = <<>>
    /\ commandLine = ""

RenderArguments ==
    /\ renderPc = "call"
    /\ rendered' = renderArguments(platform, cmd)
    /\ renderPc' = "done"
    /\ UNCHANGED <<platform, cmd, commandLine>>
    /\ UNCHANGED <<templateVars, sdkVars>>

RenderCommandLine ==
    /\ renderPc = "call"
    /\ rendered' = renderArguments(platform, cmd)
    /\ commandLine' = renderCommandLine(platform, cmd)
    /\ renderPc' = "line"
    /\ UNCHANGED <<platform, cmd>>
    /\ UNCHANGED <<templateVars, sdkVars>>

RenderNext == RenderArguments \/ RenderCommandLine

RenderSpec == RenderInit /\ [][RenderNext]_vars

-----------------------------------------------------------------------------
(* What the claims speak about *)

\* the logical ids of the Resources section of a template
ResourceIds(template) == Range(Keys(Get(template, "Resources")))

ResourceOf(template, logicalId) == Get(Get(template, "Resources"), logicalId)

\* the impact a diff reports for a logical id
ImpactOf(diff, logicalId) == changeImpact(CollectionGet(diff.resources, logicalId))

\* the base diff of line 51, as diffTemplate computes it from its arguments
BaseDiff ==
    calculateTemplateDiff(currentTemplate0, newTemplate0, replacements,
                          baseKeepMetadata(changeSet))

Returned == pc = "done"

RECURSIVE Embeds(_, _)
\* value holds, anywhere in its tree, { Ref: logicalId } or { Fn::<Name>: [logicalId, ...] }
Embeds(value, logicalId) ==
    \/ /\ value.k = "obj"
       /\ Len(value.keys) = 1
       /\ \/ /\ value.keys[1] = "Ref"
             /\ value.kids[1] = Str(logicalId)
          \/ /\ StartsWith(value.keys[1], "Fn::")
             /\ value.kids[1].k = "arr"
             /\ Len(value.kids[1].kids) > 0
             /\ value.kids[1].kids[1] = Str(logicalId)
    \/ \E i \in 1..Len(value.kids) : Embeds(value.kids[i], logicalId)

\* the reference sits where a rewrite reaches it: not inside the arguments of
\* another Ref or Fn::* expression
RECURSIVE EmbedsOutermost(_, _)
EmbedsOutermost(value, logicalId) ==
    IF value.k = "obj" /\ Len(value.keys) = 1
       /\ (value.keys[1] = "Ref" \/ StartsWith(value.keys[1], "Fn::"))
    THEN \/ value.keys[1] = "Ref" /\ value.kids[1] = Str(logicalId)
         \/ /\ value.keys[1] # "Ref"
            /\ value.kids[1].k = "arr"
            /\ Len(value.kids[1].kids) > 0
            /\ value.kids[1].kids[1] = Str(logicalId)
    ELSE \E i \in 1..Len(value.kids) : EmbedsOutermost(value.kids[i], logicalId)

\* B is in both templates with the same type and the same text, and its
\* property name, one that forces replacement when its value changes, holds
\* value
UnchangedDependent(logicalId, name) ==
    LET old == ResourceOf(currentTemplate0, logicalId)
        new == ResourceOf(newTemplate0, logicalId)
    IN /\ old.k = "obj"
       /\ new.k = "obj"
       /\ deepEqual(old, new)
       /\ name \in Range(Keys(Get(new, "Properties")))
       /\ isReplacement(PropertyImpact(Get(new, "Type").s, logicalId, name, replacements))

PropertyOf(template, logicalId, name) ==
    Get(Get(ResourceOf(template, logicalId), "Properties"), name)

PropertyNames(template, logicalId) ==
    Range(Keys(Get(ResourceOf(template, logicalId), "Properties")))

\* the strings the loop looks for: the logical ids of both templates
LogicalIds == ResourceIds(currentTemplate0) \cup ResourceIds(newTemplate0)

RECURSIVE Rewrites(_, _)
\* how many more times the reference obj can be rewritten: each rewrite
\* appends the marker to a target that is a logical id
Rewrites(obj, target) ==
    IF target \in LogicalIds
    THEN 1 + Rewrites(obj, target \o (IF obj.keys[1] = "Ref" THEN " (replaced)"
                                                              ELSE "(replaced)"))
    ELSE 0

RECURSIVE Pending(_)
RECURSIVE PendingIn(_)
\* the rewrites the working copy still admits, over the references recurse reaches
Pending(obj) ==
    IF isReference(obj)
    THEN IF obj.keys[1] = "Ref"
         THEN IF obj.kids[1].k = "str" THEN Rewrites(obj, obj.kids[1].s) ELSE 0
         ELSE IF /\ obj.kids[1].k = "arr"
                 /\ Len(obj.kids[1].kids) > 0
                 /\ obj.kids[1].kids[1].k = "str"
              THEN Rewrites(obj, obj.kids[1].kids[1].s)
              ELSE 0
    ELSE PendingIn(obj.kids)

PendingIn(kids) == IF kids = <<>> THEN 0 ELSE Pending(Head(kids)) + PendingIn(Tail(kids))

(* C1: the do/while loop of diffTemplate terminates.  An iteration that is *)
(* followed by another one has rewritten a reference, and every rewrite    *)
(* uses up one of the finitely many rewrites the working copy admits: the  *)
(* natural number Pending falls with each iteration that repeats the loop, *)
(* so the loop is left after finitely many of them, and an iteration that  *)
(* leaves the loop has rewritten nothing.                                  *)
C1_Terminates ==
    [][pc = "loop" =>
          /\ pc' = "loop" => Pending(newTemplateCopy') < Pending(newTemplateCopy)
          /\ pc' # "loop" => newTemplateCopy' = newTemplateCopy]_vars

\* a call that went through the loop body three times, the third time without
\* a rewrite, and returned
C1_Witness == pc = "done" /\ iterations = 3 /\ newTemplateCopy # newTemplate0

(* C2: when A is WILL_REPLACE in the returned diff and the unchanged B has  *)
(* a replacement-forcing property whose value embeds a reference to A, then *)
(* B is at least MAY_REPLACE in the returned diff.                          *)
C2_TransitivePropagation ==
    Returned =>
        \A a \in ResourceIds(newTemplate0), b \in ResourceIds(newTemplate0) :
            \A name \in PropertyNames(newTemplate0, b) :
                ( /\ ImpactOf(theDiff, a) = WILL_REPLACE
                  /\ UnchangedDependent(b, name)
                  /\ Embeds(PropertyOf(newTemplate0, b, name), a) )
                => isReplacement(ImpactOf(theDiff, b))

(* C3: no resource that is MAY_REPLACE or WILL_REPLACE in the base diff has *)
(* a lower impact in the returned diff, and the returned diff has at least  *)
(* as many such resources as the base diff.                                 *)
ReplacedIn(diff) ==
    {id \in ResourceIds(currentTemplate0) \cup ResourceIds(newTemplate0) :
        isReplacement(ImpactOf(diff, id))}

C3_MonotonicPropagation ==
    Returned =>
        /\ \A id \in ReplacedIn(BaseDiff) :
               Severity(ImpactOf(theDiff, id)) >= Severity(ImpactOf(BaseDiff, id))
        /\ Cardinality(ReplacedIn(theDiff)) >= Cardinality(ReplacedIn(BaseDiff))

\* the returned diff has more replaced resources than the base diff, one of
\* them replaced in both
C3_Witness ==
    /\ Returned
    /\ Cardinality(ReplacedIn(theDiff)) > Cardinality(ReplacedIn(BaseDiff))
    /\ ReplacedIn(BaseDiff) # {}

(* C4: diffTemplate(T, T) yields an empty diff: no attribute difference is *)
(* recorded and every collection, resources and unknown included, is empty, *)
(* in the base diff, in the diff the loop ends with and in the diff         *)
(* returned.                                                                *)
C4_Idempotence ==
    (pc # "start" /\ currentTemplate0 = newTemplate0) =>
        /\ theDiff = EmptyTemplateDiff
        /\ pc \in {"copyback", "done"} => diffWithReplacements = EmptyTemplateDiff

\* a call with one template that has resources, a handled section and unknown
\* sections has returned
C4_Witness ==
    /\ Returned
    /\ currentTemplate0 = newTemplate0
    /\ ResourceIds(newTemplate0) # {}
    /\ {"Description", "Outputs", "Zeta", "Custom"} \subseteq Range(Keys(newTemplate0))

\* the logical ids a diff reports with impact
WithImpact(diff, impact) == {id \in LogicalIds : ImpactOf(diff, id) = impact}

(* C5: from the base diff to the diff returned, the resources reported      *)
(* ADDED are exactly the logical ids only newTemplate has, the resources    *)
(* reported REMOVED exactly those only currentTemplate has.                 *)
C5_AddRemoveSymmetry ==
    pc # "start" =>
        /\ WithImpact(theDiff, ADDED) = ResourceIds(newTemplate0) \ ResourceIds(currentTemplate0)
        /\ WithImpact(theDiff, REMOVED) = ResourceIds(currentTemplate0) \ ResourceIds(newTemplate0)

\* a returned diff with a removed and a replaced resource and an added one
\* whose reference to the replaced one the loop has rewritten
C5_Witness ==
    /\ Returned
    /\ WithImpact(theDiff, REMOVED) # {}
    /\ \E a \in WithImpact(theDiff, WILL_REPLACE), b \in WithImpact(theDiff, ADDED) :
           /\ PropertyOf(newTemplate0, b, "Source") = Reference("Ref", a)
           /\ PropertyOf(newTemplateCopy, b, "Source") # deepCopy(Reference("Ref", a))

\* the impact the specification gives an oracle verdict
OracleImpact(verdict) ==
    CASE verdict = "Always" -> WILL_REPLACE
      [] verdict = "Conditionally" -> MAY_REPLACE
      [] verdict = "Never" -> WILL_UPDATE

\* the property differences a diff records, each with its resource
PropertyEntries(diff) ==
    UNION {{[id |-> diff.resources[i].key,
             type |-> diff.resources[i].d.oldType.s,
             name |-> diff.resources[i].d.propertyDiffs[j].key,
             impact |-> diff.resources[i].d.propertyDiffs[j].d.changeImpact] :
                j \in 1..Len(diff.resources[i].d.propertyDiffs)} :
           i \in 1..Len(diff.resources)}

(* C6: a property difference whose logical id and property name have an     *)
(* entry in the oracle is reported with the impact of that entry (Always:   *)
(* WILL_REPLACE, Conditionally: MAY_REPLACE, Never: WILL_UPDATE), whatever  *)
(* the static replacement metadata say, in the base diff, in the diff the   *)
(* loop ends with and in the diff returned.                                 *)
C6_OraclePrecedence ==
    pc # "start" =>
        \A diff \in {theDiff, diffWithReplacements} : \A p \in PropertyEntries(diff) :
            OracleVerdict(replacements, p.id, p.name) \in {"Always", "Conditionally", "Never"}
                => p.impact = OracleImpact(OracleVerdict(replacements, p.id, p.name))

\* the returned diff reports WILL_UPDATE for a property the oracle says is
\* never replaced and the static metadata say is always replaced
C6_Witness ==
    /\ Returned
    /\ \E p \in PropertyEntries(theDiff) :
           /\ OracleVerdict(replacements, p.id, p.name) = "Never"
           /\ StaticReplacement(p.type, p.name) = "Always"
           /\ p.impact = WILL_UPDATE

\* what the specification says a property detail is recorded as
ExpectedVerdict(detail) ==
    IF detail.RequiresRecreation = "Always" /\ detail.Evaluation = "Static" THEN "Always"
    ELSE IF detail.RequiresRecreation = "Always" /\ detail.Evaluation = "Dynamic"
    THEN "Conditionally"
    ELSE detail.RequiresRecreation

\* detail j of change i is the one that decides its property in the oracle:
\* no later change has the logical id, no later detail of the change the name
Deciding(i, j) ==
    LET changes == changeSet.Changes
        details == changes[i].Details
    IN /\ \A k \in (i + 1)..Len(changes) :
              changes[k].LogicalResourceId # changes[i].LogicalResourceId
       /\ \A k \in (j + 1)..Len(details) :
              ~(details[k].Attribute = "Properties" /\ details[k].Name = details[j].Name)

(* C7: every detail of a resource change whose attribute is Properties is   *)
(* recorded, when the loop comes to it, as Always if it requires recreation *)
(* with Static evaluation, as Conditionally if it requires recreation with  *)
(* Dynamic evaluation, and as its raw recreation verdict otherwise; a       *)
(* Dynamic detail is never recorded as Always; the oracle holds what the    *)
(* deciding detail was recorded as, and a property difference decided by a  *)
(* Dynamic detail that requires recreation is reported MAY_REPLACE.         *)
C7_OracleConstruction ==
    (pc # "start" /\ changeSet.present) =>
        \A i \in 1..Len(changeSet.Changes) :
            \A j \in 1..Len(changeSet.Changes[i].Details) :
                LET id == changeSet.Changes[i].LogicalResourceId
                    details == changeSet.Changes[i].Details
                    detail == details[j]
                    recorded == EntryAt(propertiesReplacedOf(<<>>, SubSeq(details, 1, j)),
                                        detail.Name)
                IN detail.Attribute = "Properties" =>
                    /\ recorded = ExpectedVerdict(detail)
                    /\ detail.Evaluation = "Dynamic" => recorded # "Always"
                    /\ Deciding(i, j) =>
                        /\ OracleVerdict(replacements, id, detail.Name) = ExpectedVerdict(detail)
                        /\ (detail.Evaluation = "Dynamic" /\ detail.RequiresRecreation = "Always")
                            => \A p \in PropertyEntries(theDiff) :
                                   (p.id = id /\ p.name = detail.Name) => p.impact = MAY_REPLACE

\* a change set with a Dynamic detail that requires recreation of a changed
\* property after a Static one for the same property: the returned diff
\* reports MAY_REPLACE
C7_Witness ==
    /\ Returned
    /\ changeSet.present
    /\ \E i \in 1..Len(changeSet.Changes) : \E j \in 2..Len(changeSet.Changes[i].Details) :
           LET detail == changeSet.Changes[i].Details[j]
           IN /\ detail.Attribute = "Properties"
              /\ detail.Evaluation = "Dynamic"
              /\ detail.RequiresRecreation = "Always"
              /\ changeSet.Changes[i].Details[1] =
                     [detail EXCEPT !.Evaluation = "Static"]
              /\ \E p \in PropertyEntries(theDiff) :
                     /\ p.id = changeSet.Changes[i].LogicalResourceId
                     /\ p.name = detail.Name
                     /\ p.impact = MAY_REPLACE

RECURSIVE SharesWithCaller(_)
\* some mapping or sequence of the tree is an object of the caller
SharesWithCaller(value) ==
    /\ value.k \in {"arr", "obj"}
    /\ \/ value.own = "caller"
       \/ \E i \in 1..Len(value.kids) : SharesWithCaller(value.kids[i])

(* C8: at every step of a call currentTemplate and newTemplate are what the *)
(* caller passed in, and the working copy shares no mapping and no sequence *)
(* with newTemplate.                                                        *)
C8_CallerDataUntouched ==
    /\ currentTemplate = currentTemplate0
    /\ newTemplate = newTemplate0
    /\ pc \in {"loop", "copyback", "done"} => ~SharesWithCaller(newTemplateCopy)

\* a call has returned after rewriting references inside nested sequences of
\* the working copy
C8_Witness ==
    /\ Returned
    /\ iterations >= 2
    /\ ~deepEqual(newTemplateCopy, newTemplate0)
    /\ \E id \in ResourceIds(newTemplate0) :
           PropertyOf(newTemplate0, id, "Source").k = "arr"

\* the mapping with its keys in the opposite order
Reversed(o) ==
    IF o.k = "obj"
    THEN [o EXCEPT !.keys = [i \in 1..Len(o.keys) |-> o.keys[Len(o.keys) + 1 - i]],
                   !.kids = [i \in 1..Len(o.kids) |-> o.kids[Len(o.kids) + 1 - i]]]
    ELSE o

\* the template with its top-level keys and its logical ids in the opposite order
Reordered(template) ==
    LET t == Reversed(template)
    IN [t EXCEPT !.kids = [i \in 1..Len(t.kids) |->
                              IF t.keys[i] = "Resources" THEN Reversed(t.kids[i])
                                                         ELSE t.kids[i]]]

(* C9: the diff a call returns is the value of diffTemplate for its         *)
(* arguments, and it is the same diff, the order of its keys included, when *)
(* the top-level keys and the logical ids of both templates come in the     *)
(* opposite order.                                                          *)
C9_Determinism ==
    Returned =>
        /\ theDiff = diffTemplate(currentTemplate0, newTemplate0, changeSet)
        /\ theDiff = diffTemplate(Reordered(currentTemplate0), Reordered(newTemplate0),
                                  changeSet)

\* a returned diff with several resources and several unknown keys, for
\* templates that reordering changes
C9_Witness ==
    /\ Returned
    /\ Len(theDiff.resources) >= 2
    /\ Len(theDiff.unknown) >= 2
    /\ Reordered(newTemplate0) # newTemplate0
    /\ Reordered(currentTemplate0) # currentTemplate0

\* the impacts a resource difference of a resource in both templates records:
\* of its type, of its other attributes and of its properties
RecordedImpacts(rd) ==
    {NO_CHANGE}
    \cup (IF deepEqual(rd.oldType, rd.newType) THEN {} ELSE {WILL_REPLACE})
    \cup (IF rd.otherDiffs = <<>> THEN {} ELSE {WILL_UPDATE})
    \cup {rd.propertyDiffs[j].d.changeImpact : j \in 1..Len(rd.propertyDiffs)}

KeyedSections == {"Metadata", "Parameters", "Mappings", "Conditions", "Resources", "Outputs"}

\* a template of the call has an array where a mapping is required
MalformedInput ==
    \E key \in KeyedSections :
        Get(currentTemplate0, key).k = "arr" \/ Get(newTemplate0, key).k = "arr"

(* C11: a call with a section value that is not a mapping where one is      *)
(* required returns no diff.                                                *)
C11_MalformedInputAborts == MalformedInput => ~Returned

\* the loop has rewritten a reference of b to the logical id a, and the
\* marker string it has put in place is a logical id of the working copy
MarkerCollision ==
    /\ pc \in {"loop", "copyback", "done"}
    /\ \E a \in ResourceIds(newTemplate0), b \in ResourceIds(newTemplate0), form \in Forms :
           /\ PropertyOf(newTemplate0, b, "Source") = Reference(form, a)
           /\ deepEqual(PropertyOf(newTemplateCopy, b, "Source"), Replaced(form, a))
           /\ MarkerOf(form, a) \in ResourceIds(newTemplateCopy)

(* C12: a call in which the marker string written for a logical id equals   *)
(* a logical id of the working copy fails: it does not run to its return.   *)
C12_MarkerCollisionAborts == MarkerCollision => ~Returned

\* the change set, if any, has no property detail for the property of the
\* logical id
NoOracleData(logicalId, propertyName) ==
    \/ ~changeSet.present
    \/ \A i \in 1..Len(changeSet.Changes) :
           changeSet.Changes[i].LogicalResourceId = logicalId =>
               \A j \in 1..Len(changeSet.Changes[i].Details) :
                   ~ /\ changeSet.Changes[i].Details[j].Attribute = "Properties"
                     /\ changeSet.Changes[i].Details[j].Name = propertyName

\* the impact the specification gives a changed property from the static
\* replacement metadata alone
StaticImpact(resourceType, propertyName) ==
    CASE StaticReplacement(resourceType, propertyName) = "Always" -> WILL_REPLACE
      [] StaticReplacement(resourceType, propertyName) = "Conditionally" -> MAY_REPLACE
      [] OTHER -> WILL_UPDATE

(* C13: without a change set, and for a property the change set has no      *)
(* detail for, every property difference of every diff of the call has the  *)
(* impact the static replacement metadata give it, WILL_UPDATE when they    *)
(* hold nothing; the call goes on to its return.                            *)
C13_MissingOracleData ==
    pc # "start" =>
        \A diff \in {theDiff, diffWithReplacements} : \A p \in PropertyEntries(diff) :
            NoOracleData(p.id, p.name) => p.impact = StaticImpact(p.type, p.name)

\* a call with a change set has returned a diff with a property the change
\* set says nothing about and the static metadata do not know, next to one
\* the oracle decides
C13_Witness ==
    /\ Returned
    /\ changeSet.present
    /\ \E p \in PropertyEntries(theDiff), q \in PropertyEntries(theDiff) :
           /\ NoOracleData(p.id, p.name)
           /\ StaticReplacement(p.type, p.name) = "Unknown"
           /\ p.impact = WILL_UPDATE
           /\ q.id = p.id
           /\ OracleVerdict(replacements, q.id, q.name) = "Conditionally"

\* forEnvironment has ended a call that was given an assumeRoleArn
AssumeRoleAttempted == sdkPc = "done" /\ request.assumeRoleArn = "arn" /\ baseCreds.source \notin {"undefined", "none"}

\* C14: when forEnvironment is called with an assumeRoleArn and assuming the
\* role fails with an error other than ExpiredToken, base credentials from
\* source correctDefault or plugin are returned with didAssumeRole = false
\* instead of an error; with ExpiredToken, or with base credentials for the
\* wrong account, forEnvironment throws.
C14_AssumeRoleFallback ==
    AssumeRoleAttempted /\ provider.assumeRole # "ok" =>
        IF provider.assumeRole # "ExpiredToken" /\ baseCreds.source \in {"correctDefault", "plugin"}
        THEN result = Return(baseCreds.credentials, FALSE)
        ELSE result.kind = "thrown"

\* the source obtainBaseCredentials has to name for an account
ExpectedSource(accountId) ==
    CASE provider.defaultAccountId = accountId -> "correctDefault"
      [] provider.defaultAccountId # accountId /\ accountId \in provider.pluginAccounts -> "plugin"
      [] provider.defaultAccountId \notin {accountId, "undefined"} /\ accountId \notin provider.pluginAccounts -> "incorrectDefault"
      [] OTHER -> "none"

\* C15: base credentials are the default ones when their account is the
\* target account, else those of a plugin, else the default ones flagged as
\* being for the wrong account, else none; forEnvironment throws when there are
\* none, and without an assumeRoleArn also when they are defaults for another
\* account, so that without role assumption every SDK it returns holds
\* credentials of the target account.
C15_BaseCredentialSelection ==
    /\ baseCreds.source # "undefined" =>
          /\ baseCreds.source = ExpectedSource(env.account)
          /\ baseCreds.source \in {"correctDefault", "incorrectDefault"} =>
                baseCreds.credentials = Credentials("default", provider.defaultAccountId)
          /\ baseCreds.source = "plugin" => baseCreds.credentials.kind = "plugin"
    /\ sdkPc = "done" /\ baseCreds.source = "none" => result.kind = "thrown"
    /\ sdkPc = "done" /\ request.assumeRoleArn = "undefined" /\ baseCreds.source = "incorrectDefault" =>
          result.kind = "thrown"
    /\ result.kind = "returned" /\ ~result.didAssumeRole =>
          /\ baseCreds.source \in {"correctDefault", "plugin"}
          /\ result.credentials.account = env.account

\* a plugin's credentials are returned although default credentials for another
\* account exist
C15_Witness ==
    /\ result.kind = "returned"
    /\ ~result.didAssumeRole
    /\ result.credentials.kind = "plugin"
    /\ provider.defaultAccountId \in Accounts \ {env.account}

\* the do/while loop of lines 56 to 72 has been left
LoopExited == pc \in {"copyback", "done"}

(* C16: once the loop is left, the working copy holds no reference, at any  *)
(* depth and also inside the arguments of another Fn::* expression, to the  *)
(* logical id of a resource that the last recomputed diff reports as        *)
(* WILL_REPLACE.                                                            *)
C16_RewriteCompleteness ==
    LoopExited =>
        \A id \in LogicalIds :
            ImpactOf(diffWithReplacements, id) = WILL_REPLACE => ~Embeds(newTemplateCopy, id)

\* the names of the property differences a diff records for a logical id
PropertyUpdates(diff, logicalId) == EntryKeys(CollectionGet(diff.resources, logicalId).propertyDiffs)

\* the impact a diff records for a property of a logical id, NO_CHANGE when it
\* records no difference for it
RecordedImpact(diff, logicalId, name) ==
    IF name \in PropertyUpdates(diff, logicalId)
    THEN EntryAt(CollectionGet(diff.resources, logicalId).propertyDiffs, name).changeImpact
    ELSE NO_CHANGE

(* C17: in the returned diff, every resource that the last recomputed diff  *)
(* reports as MAY_REPLACE or WILL_REPLACE carries, for each property whose  *)
(* impact in that diff differs from its impact in the base diff, the impact *)
(* of the recomputed diff, also when both diffs give the resource itself    *)
(* the same impact.                                                         *)
C17_CopyBackGranularity ==
    Returned =>
        \A id \in LogicalIds :
            isReplacement(ImpactOf(diffWithReplacements, id)) =>
                \A name \in PropertyUpdates(diffWithReplacements, id) :
                    RecordedImpact(diffWithReplacements, id, name) # RecordedImpact(BaseDiff, id, name)
                    => RecordedImpact(theDiff, id, name) = RecordedImpact(diffWithReplacements, id, name)

\* the number of resources of the template the working copy is a copy of
ResourceCount == Cardinality(ResourceIds(newTemplate0))

(* C18: the body of the do/while loop is executed at most as many times as  *)
(* the template has resources.                                              *)
C18_IterationBound == iterations <= Cardinality(LogicalIds)

\* no logical id is another logical id followed by the marker a rewrite appends
MarkerFreeIds ==
    \A id \in LogicalIds, form \in {"Ref", "GetAtt"} : MarkerOf(form, id) \notin LogicalIds

(* C18, as the code has it: when no logical id is itself the marker string  *)
(* of another one, the loop body is executed at most once more than the     *)
(* template has resources; the last execution is the one that finds nothing *)
(* left to rewrite.                                                         *)
C18_IterationBoundPlusOne == MarkerFreeIds => iterations <= ResourceCount + 1

\* a ring of references over all resources of the template: every resource is
\* reached in an iteration of its own, and one more iteration ends the loop
C18_Witness ==
    Returned /\ MarkerFreeIds /\ ResourceCount = NumIds /\ iterations = ResourceCount + 1

\* str.endsWith(suffix)
EndsWith(str, suffix) ==
    Len(str) >= Len(suffix) /\ SubSeq(str, Len(str) - Len(suffix) + 1, Len(str)) = suffix

RECURSIVE HoldsMarkerString(_)
\* some string of the value tree ends the way a rewritten reference does
HoldsMarkerString(value) ==
    \/ value.k = "str" /\ EndsWith(value.s, "(replaced)")
    \/ \E i \in 1..Len(value.kids) : HoldsMarkerString(value.kids[i])

\* the resources the diff reports as WILL_REPLACE
WillReplace(diff) == {id \in LogicalIds : ImpactOf(diff, id) = WILL_REPLACE}

(* C19: from one iteration of the loop to the next, the resources that the  *)
(* recomputed diff reports as WILL_REPLACE only grow in number: none of     *)
(* them leaves the set, whatever strings the old template holds.            *)
C19_WillReplaceOnlyGrows ==
    [][WillReplace(diffWithReplacements) \subseteq WillReplace(diffWithReplacements')]_vars

(* C19, as the code has it: when no string of the old template ends in the  *)
(* marker of a rewritten reference, no resource leaves the WILL_REPLACE set *)
(* of the recomputed diff from one iteration to the next.                   *)
C19_WillReplaceOnlyGrowsWithoutMarkers ==
    [][~HoldsMarkerString(currentTemplate0) =>
          WillReplace(diffWithReplacements) \subseteq WillReplace(diffWithReplacements')]_vars

\* the loop has gone round more than once on an old template without marker
\* strings, and its last diff reports a WILL_REPLACE resource the base diff
\* does not
C19_Witness ==
    /\ iterations >= 2
    /\ ~HoldsMarkerString(currentTemplate0)
    /\ WillReplace(theDiff) # {}
    /\ WillReplace(diffWithReplacements) \ WillReplace(theDiff) # {}
    /\ pc = "copyback"

\* the resource is in both templates with one type and two Metadata values
MetadataChanged(logicalId) ==
    LET old == ResourceOf(currentTemplate0, logicalId)
        new == ResourceOf(newTemplate0, logicalId)
    IN /\ old.k = "obj"
       /\ new.k = "obj"
       /\ deepEqual(Get(old, "Type"), Get(new, "Type"))
       /\ ~deepEqual(Get(old, "Metadata"), Get(new, "Metadata"))

\* the diff records a difference of the Metadata attribute of the resource
MetadataRecorded(diff, logicalId) ==
    "Metadata" \in EntryKeys(CollectionGet(diff.resources, logicalId).otherDiffs)

(* C20: the base diff drops the Metadata attribute of resources when no     *)
(* change set is given (keepMetadata = false) and retains it when one is    *)
(* given (keepMetadata = true).                                             *)
C20_MetadataKeptWithChangeSet ==
    pc # "start" =>
        \A id \in LogicalIds :
            MetadataChanged(id) => (MetadataRecorded(theDiff, id) <=> changeSet.present)

(* C20, as the code has it: the base diff retains the Metadata attribute of *)
(* resources when no change set is given (keepMetadata = true) and drops it *)
(* when one is given (keepMetadata = false).                                *)
C20_MetadataKeptWithoutChangeSet ==
    pc # "start" =>
        \A id \in LogicalIds :
            MetadataChanged(id) => (MetadataRecorded(theDiff, id) <=> ~changeSet.present)

\* a call with a change set has returned a diff that lacks the changed
\* Metadata of a resource
C20_Witness ==
    /\ Returned
    /\ changeSet.present
    /\ \E id \in LogicalIds : MetadataChanged(id) /\ ~MetadataRecorded(theDiff, id)

RECURSIVE ReferenceCount(_, _)
RECURSIVE ReferenceCountIn(_, _)
\* how many reference expressions to logicalId the value tree holds, those
\* inside the arguments of other expressions included
ReferenceCount(value, logicalId) ==
    (IF \/ /\ value.k = "obj"
           /\ Len(value.keys) = 1
           /\ \/ /\ value.keys[1] = "Ref"
                 /\ value.kids[1] = Str(logicalId)
              \/ /\ StartsWith(value.keys[1], "Fn::")
                 /\ value.kids[1].k = "arr"
                 /\ Len(value.kids[1].kids) > 0
                 /\ value.kids[1].kids[1] = Str(logicalId)
     THEN 1 ELSE 0) + ReferenceCountIn(value.kids, logicalId)

ReferenceCountIn(kids, logicalId) ==
    IF kids = <<>> THEN 0
    ELSE ReferenceCount(Head(kids), logicalId) + ReferenceCountIn(Tail(kids), logicalId)

\* the body of the resource in the working copy holds a reference to a
\* resource that diff reports as WILL_REPLACE
RefersToReplaced(copy, diff, logicalId) ==
    \E id \in WillReplace(diff) : Embeds(ResourceOf(copy, logicalId), id)

(* C21: an iteration of the loop takes away references only to logical ids  *)
(* that its own diff reports as WILL_REPLACE: no reference to any other     *)
(* logical id (MAY_REPLACE, WILL_UPDATE, ADDED, REMOVED, unchanged) is      *)
(* rewritten, the body of a resource changes only when it refers to a       *)
(* WILL_REPLACE resource, and a resource whose body no iteration changed is *)
(* returned with the impact of the base diff.                               *)
C21_OnlyWillReplacePropagates ==
    [][/\ pc = "loop" =>
            /\ \A id \in LogicalIds \ WillReplace(diffWithReplacements') :
                   ReferenceCount(newTemplateCopy', id) >= ReferenceCount(newTemplateCopy, id)
            /\ \A b \in LogicalIds :
                   ResourceOf(newTemplateCopy', b) # ResourceOf(newTemplateCopy, b)
                   => RefersToReplaced(newTemplateCopy, diffWithReplacements', b)
       /\ pc' = "done" =>
            \A b \in LogicalIds :
                deepEqual(ResourceOf(newTemplateCopy, b), ResourceOf(newTemplate0, b))
                => ImpactOf(theDiff', b) = ImpactOf(BaseDiff, b)]_vars

\* the loop is over: a resource that refers to a MAY_REPLACE resource and to
\* no WILL_REPLACE one has kept its body and its impact, while another
\* resource was rewritten
C21_Witness ==
    /\ Returned
    /\ newTemplateCopy # deepCopy(newTemplate0)
    /\ \E b \in ResourceIds(newTemplate0), a \in ResourceIds(newTemplate0) :
          /\ ImpactOf(diffWithReplacements, a) = MAY_REPLACE
          /\ Embeds(ResourceOf(newTemplateCopy, b), a)
          /\ ~RefersToReplaced(newTemplateCopy, diffWithReplacements, b)
          /\ ImpactOf(theDiff, b) = NO_CHANGE

\* the quoted string with every special character prefixed with ^
EscapedForWindows(x) ==
    LET quoted == "\"" \o x \o "\""
    IN join([i \in 1..Len(quoted) |->
                 IF SubSeq(quoted, i, i) \in shellMeta THEN "^" \o SubSeq(quoted, i, i)
                                                      ELSE SubSeq(quoted, i, i)], "")

(* C24: on Windows renderArguments returns an argument without space, ", &, *)
(* ^ and % as it is, and any other argument surrounded by double quotes     *)
(* with every ", &, ^ and % of the quoted string prefixed with ^.           *)
C24_WindowsEscaping ==
    renderPc = "done" /\ platform = "win32" =>
        /\ Len(rendered) = Len(cmd)
        /\ \A i \in 1..Len(cmd) :
               rendered[i] = IF hasAnyChars({" ", "\"", "&", "^", "%"}, cmd[i])
                             THEN EscapedForWindows(cmd[i])
                             ELSE cmd[i]

\* the logical ids a diff holds resource differences for
ResourceKeys(diff) == EntryKeys(diff.resources)

\* the diff without its resource differences
OutsideResources(diff) == [diff EXCEPT !.resources = <<>>]

\* the resource difference without its property differences
OutsideProperties(rd) == [rd EXCEPT !.propertyDiffs = <<>>]

\* the property difference a diff records under name for a logical id, as a
\* set: empty when it records none
PropertyEntry(diff, logicalId, name) ==
    IF name \in PropertyUpdates(diff, logicalId)
    THEN {EntryAt(CollectionGet(diff.resources, logicalId).propertyDiffs, name)}
    ELSE {}

\* compared with the base diff, the returned diff differs in property
\* differences only, those belong to resources that the last recomputed diff
\* reports as MAY_REPLACE or WILL_REPLACE, and they carry such an impact
OnlyReplacementsAdded ==
    /\ OutsideResources(theDiff) = OutsideResources(BaseDiff)
    /\ \A id \in ResourceKeys(BaseDiff) :
           OutsideProperties(CollectionGet(theDiff.resources, id))
               = OutsideProperties(CollectionGet(BaseDiff.resources, id))
    /\ \A id \in ResourceKeys(theDiff) \cup ResourceKeys(BaseDiff) :
           \A name \in PropertyUpdates(theDiff, id) \cup PropertyUpdates(BaseDiff, id) :
               PropertyEntry(theDiff, id, name) # PropertyEntry(BaseDiff, id, name) =>
                   /\ isReplacement(ImpactOf(diffWithReplacements, id))
                   /\ isReplacement(RecordedImpact(theDiff, id, name))

(* C22: the returned diff is the base diff with replacement information     *)
(* added: the sections other than resources are those of the base diff, the *)
(* resource keys are those of the base diff, and a property difference that *)
(* is not the base diff's belongs to a resource whose propagated impact is  *)
(* MAY_REPLACE or WILL_REPLACE and carries such an impact itself.           *)
C22_OnlyReplacementsAdded ==
    Returned => OnlyReplacementsAdded /\ ResourceKeys(theDiff) = ResourceKeys(BaseDiff)

(* C22, as the code has it: the same, but the returned diff also holds a    *)
(* resource difference for every resource that the base diff leaves out as  *)
(* unchanged and whose propagated impact is MAY_REPLACE or WILL_REPLACE: it *)
(* is the unchanged difference with the replaced properties set.            *)
C22_OnlyReplacementsAddedToKeys ==
    Returned =>
        /\ OnlyReplacementsAdded
        /\ ResourceKeys(BaseDiff) \subseteq ResourceKeys(theDiff)
        /\ \A id \in ResourceKeys(theDiff) \ ResourceKeys(BaseDiff) :
               /\ isReplacement(ImpactOf(diffWithReplacements, id))
               /\ OutsideProperties(CollectionGet(theDiff.resources, id)) = UnchangedResourceDifference

\* the copy-back has added a property difference to a resource of the base
\* diff and a resource difference the base diff does not hold
C22_Witness ==
    /\ Returned
    /\ ResourceKeys(theDiff) # ResourceKeys(BaseDiff)
    /\ \E id \in ResourceKeys(BaseDiff) :
           PropertyUpdates(theDiff, id) # PropertyUpdates(BaseDiff, id)

\* the top-level keys of the two templates that have no handler of their own
UnknownKeys == Range(TemplateKeys(currentTemplate0, newTemplate0)) \ HandledSections

(* C23: every top-level key that is not a well-known section has an entry   *)
(* in the unknown collection of the base diff exactly when its old and new  *)
(* value are not deep-equal, the collection holds nothing else (it is empty *)
(* when no such key differs), and a well-known section with deep-equal      *)
(* values is not diffed.                                                    *)
C23_UnknownKeysKept ==
    pc # "start" =>
        /\ EntryKeys(theDiff.unknown) =
               {key \in UnknownKeys :
                   ~deepEqual(Get(currentTemplate0, key), Get(newTemplate0, key))}
        /\ deepEqual(Get(currentTemplate0, "Description"), Get(newTemplate0, "Description"))
               => theDiff.description = NoDifference
        /\ deepEqual(Get(currentTemplate0, "Outputs"), Get(newTemplate0, "Outputs"))
               => theDiff.outputs = <<>>
        /\ deepEqual(Get(currentTemplate0, "Resources"), Get(newTemplate0, "Resources"))
               => theDiff.resources = <<>>

\* the last change of the change set that carries the logical id
LastChange(id) ==
    LET changes == changeSet.Changes
    IN changes[CHOOSE i \in 1..Len(changes) :
                   /\ changes[i].LogicalResourceId = id
                   /\ \A k \in (i + 1)..Len(changes) : changes[k].LogicalResourceId # id]

\* the details of a change that target a property
PropertyDetails(details) ==
    {j \in 1..Len(details) : details[j].Attribute = "Properties"}

\* the last detail of the list that targets the property of that name
LastDetail(details, name) ==
    details[CHOOSE j \in PropertyDetails(details) :
                /\ details[j].Name = name
                /\ \A k \in PropertyDetails(details) : k > j => details[k].Name # name]

(* C25: the oracle has one entry for every logical id of the change set,    *)
(* built from the last change that carries the id alone: its replaced flag  *)
(* is that of the last change, its property names are the names of the      *)
(* details of the last change that target Properties, and the verdict of a  *)
(* name is that of the last such detail in list order, whatever an earlier  *)
(* detail or an earlier change said.                                        *)
C25_LastWriteWins ==
    (pc # "start" /\ changeSet.present) =>
        /\ replacements.defined
        /\ EntryKeys(replacements.entries) =
               {changeSet.Changes[i].LogicalResourceId : i \in 1..Len(changeSet.Changes)}
        /\ \A e \in Range(replacements.entries) :
               LET change == LastChange(e.key)
                   names == {change.Details[j].Name : j \in PropertyDetails(change.Details)}
               IN /\ e.resourceReplaced = (change.Replacement = "True")
                  /\ EntryKeys(e.propertiesReplaced) = names
                  /\ \A name \in names :
                         EntryAt(e.propertiesReplaced, name) =
                             ExpectedVerdict(LastDetail(change.Details, name))

\* the oracle was built from a change whose first detail maps a property to
\* Always and whose second detail maps the same property to Never
C25_Witness ==
    /\ pc = "done"
    /\ changeSet.present
    /\ \E i \in 1..Len(changeSet.Changes) :
           LET change == changeSet.Changes[i]
               details == change.Details
           IN /\ Len(details) = 2
              /\ PropertyDetails(details) = {1, 2}
              /\ details[1].Name = details[2].Name
              /\ ExpectedVerdict(details[1]) = "Always"
              /\ ExpectedVerdict(details[2]) = "Never"
              /\ OracleVerdict(replacements, change.LogicalResourceId, details[1].Name) = "Never"

\* template.Resources[logicalId].Properties[name]
PropertyValue(template, logicalId, name) ==
    Get(Get(ResourceOf(template, logicalId), "Properties"), name)

RECURSIVE HoldsRewrittenReference(_)
\* the value holds a reference as a rewrite leaves it: { Ref: id + ' (replaced)' }
\* or { Fn::<Name>: [id + '(replaced)', ...] } for a logical id
HoldsRewrittenReference(value) ==
    \/ /\ value.k = "obj"
       /\ Len(value.keys) = 1
       /\ \/ /\ value.keys[1] = "Ref"
             /\ \E id \in LogicalIds : value.kids[1] = Str(id \o " (replaced)")
          \/ /\ StartsWith(value.keys[1], "Fn::")
             /\ value.kids[1].k = "arr"
             /\ Len(value.kids[1].kids) > 0
             /\ \E id \in LogicalIds : value.kids[1].kids[1] = Str(id \o "(replaced)")
    \/ \E i \in 1..Len(value.kids) : HoldsRewrittenReference(value.kids[i])

\* the property differences of the returned diff that are not the base diff's
Installed ==
    UNION {{<<id, name>> : name \in {n \in PropertyUpdates(theDiff, id) :
                                        PropertyEntry(theDiff, id, n) # PropertyEntry(BaseDiff, id, n)}} :
           id \in LogicalIds}

(* C26: a property difference that the copy-back put into the returned diff *)
(* is the property difference of the last recomputed diff as a whole: its   *)
(* old value is the value of the property in the old template, its new      *)
(* value is the value of the property in the rewritten working copy, which  *)
(* holds a reference in its rewritten form (id + ' (replaced)' under Ref,   *)
(* id + '(replaced)' under Fn::<Name>) and is not the value of the         *)
(* property in the caller's new template.                                   *)
C26_WholeDifferenceInstalled ==
    Returned =>
        \A p \in Installed :
            LET d == EntryAt(CollectionGet(theDiff.resources, p[1]).propertyDiffs, p[2])
            IN /\ PropertyEntry(diffWithReplacements, p[1], p[2]) = {d}
               /\ deepEqual(d.oldValue, PropertyValue(currentTemplate0, p[1], p[2]))
               /\ deepEqual(d.newValue, PropertyValue(newTemplateCopy, p[1], p[2]))
               /\ ~deepEqual(d.newValue, PropertyValue(newTemplate0, p[1], p[2]))
               /\ HoldsRewrittenReference(d.newValue)

\* the copy-back installed a difference rewritten under Ref for one resource
\* of the returned diff
C26_Witness ==
    /\ Returned
    /\ \E p \in Installed :
           LET d == EntryAt(CollectionGet(theDiff.resources, p[1]).propertyDiffs, p[2])
           IN /\ d.newValue.k = "obj"
              /\ d.newValue.keys = <<"Ref">>
              /\ HoldsRewrittenReference(d.newValue)
              /\ deepEqual(d.oldValue, PropertyValue(newTemplate0, p[1], p[2]))

====
